---- MODULE Spec2Model ----
(***************************************************************************)
(* Terraform plan tag-compliance analyzer.                                 *)
(*                                                                         *)
(* Three variants of the analyzer are modelled side by side:               *)
(*   "tag_not_worked"          src/terraform/tag_not_worked.py             *)
(*   "Tagging_POLICY_Check"    src/terraform/Tagging_POLICY_Check.py       *)
(*   "tagging_solution_debug"  src/terraform/tagging_solution_debug.py     *)
(* They share the rule catalog and the helper functions and differ in      *)
(* analyze_terraform_plan and in the report generators.                    *)
(* Two further scripts are modelled as pure calls:                         *)
(*   extract_tags of           src/terraform/tagging_deep_scan.py          *)
(*   the static scanner        src/terraform/tf_static_analyze.py          *)
(*                                                                         *)
(* JSON values are records [t, v]: t is the JSON/Python type, v is the     *)
(* Python str() form of the value.  Python dicts are TLA+ functions; a     *)
(* dict-valued attribute that may be absent is a record [kind, m].         *)
(***************************************************************************)
EXTENDS Integers, Sequences, FiniteSets, TLC

VARIABLES
    script,                  \* which variant of the analyzer runs
    source_parses,           \* python can compile the script file: FALSE for
                             \* Tagging_POLICY_Check.py as shipped (text after line 656),
                             \* TRUE for its lines 1-656 and for the other scripts
    args_json,               \* the --json command-line flag
    os_environ,              \* value of the DEPLOYMENT_ENV environment variable
    re_rejects_inline_flag,  \* interpreter: re raises on "(?i)" not at pattern start (Python >= 3.11)
    plan_data,               \* the plan document
    pc,                      \* position of the run
    index,                   \* loop position in resources_to_check (1-based)
    plan_format_used,        \* shape selected by analyze_terraform_plan
    violations_by_resource,  \* address -> issues
    analyzed_resources_count,
    excluded_resources_count,
    report,                  \* the JSON report, when printed
    console_report,          \* the console report, when printed
    warnings,                \* the warnings printed so far
    exit_code,
    call,                    \* pure-function harness: the call being made
    ret                      \* pure-function harness: its result

vars == <<script, source_parses, args_json, os_environ, re_rejects_inline_flag, plan_data,
          pc, index,
          plan_format_used, violations_by_resource, analyzed_resources_count,
          excluded_resources_count, report, console_report, warnings, exit_code, call, ret>>

----------------------------------------------------------------------------
(* Bounds *)

MaxPlanLen == 2
MaxTagList == 1
MaxRuleList == 2
MaxScanLen == 2

----------------------------------------------------------------------------
(* JSON values *)

JStr(s) == [t |-> "str", v |-> s]
JNum(s) == [t |-> "num", v |-> s]
JBool(b) == [t |-> "bool", v |-> IF b THEN "True" ELSE "False"]
JNull == [t |-> "null", v |-> "None"]
JAbsent == [t |-> "absent", v |-> ""]

\* str(value)
Str(x) == x.v

EmptyMap == [k \in {} |-> JNull]
StrMap(f) == [k \in DOMAIN f |-> JStr(f[k])]

\* dict.update(other): keys of other win
DictUpdate(d, other) ==
    [k \in DOMAIN d \cup DOMAIN other |-> IF k \in DOMAIN other THEN other[k] ELSE d[k]]

DictAttr(m) == [kind |-> "dict", m |-> m]
AbsentAttr == [kind |-> "absent", m |-> EmptyMap]
\* a value that is neither a dict nor a list (a string, a number)
OtherAttr == [kind |-> "other", m |-> EmptyMap]
\* a list of {key, value} items where a dict is expected
TagListAttr(l) == [kind |-> "taglist", m |-> EmptyMap, l |-> l]

----------------------------------------------------------------------------
(* str.lower / str.upper on the strings of the model *)

LowerMap ==
    "MyApp" :> "myapp" @@ "OtherApp" :> "otherapp" @@ "AnotherApp" :> "anotherapp" @@
    "TestApp" :> "testapp" @@ "True" :> "true" @@ "TRUE" :> "true" @@
    "CostCenter" :> "costcenter" @@ "Project" :> "project" @@
    "Terraform" :> "terraform" @@ "TERRAFORM" :> "terraform" @@
    "Application" :> "application" @@
    "Environment" :> "environment" @@ "Owner" :> "owner" @@
    "DataRetention" :> "dataretention" @@ "Classification" :> "classification" @@
    "AssetID" :> "assetid" @@ "PII" :> "pii" @@ "BackupEnabled" :> "backupenabled" @@
    "A" :> "a" @@ "B" :> "b" @@
    "Non-production::DEV" :> "non-production::dev" @@
    "Non-production::QAT" :> "non-production::qat" @@
    "Production::PRD" :> "production::prd" @@
    "Internal" :> "internal" @@ "Strictly Confidential" :> "strictly confidential" @@
    "Public" :> "public" @@ "Confidential" :> "confidential" @@
    "Indefinite" :> "indefinite" @@ "None" :> "none" @@ "False" :> "false" @@
    "DevOps" :> "devops"

Lower(s) == IF s \in DOMAIN LowerMap THEN LowerMap[s] ELSE s

UpperMap == "prod" :> "PROD" @@ "npe" :> "NPE"

Upper(s) == IF s \in DOMAIN UpperMap THEN UpperMap[s] ELSE s

----------------------------------------------------------------------------
(* Regular expressions of the configuration, and re.match on the strings   *)
(* of the model.                                                           *)

RX_APP_KEY == "^[a-zA-Z]+$"
RX_APP_VALUE == "^(?i)(MyApp|AnotherApp|TestApp)$"
RX_ENV_KEY == "^Environment$"
RX_OWNER_VALUE == "^[a-zA-Z0-9._%+-]+@[a-zA-Z0-9.-]+\\.[a-zA-Z]{2,}$"
RX_RETENTION_VALUE == "^(\\d+[dy]|Indefinite)$"
RX_ASSET_KEY == "^AssetID$"
RX_ASSET_VALUE == "^[a-zA-Z0-9-]+$"
RX_EXCL_NAME == "^(dev|test)-"

\* re.compile raises re.error
ReError(pattern) ==
    pattern = RX_APP_VALUE /\ re_rejects_inline_flag

\* the strings of the model on which re.match(pattern, s) succeeds
ReMatchSet(pattern) ==
    CASE pattern = RX_APP_KEY ->
            {"Application", "Environment", "Owner", "DataRetention", "Classification",
             "breadth", "sensitivity", "danger", "CostCenter", "Project", "Terraform",
             "AssetID", "PII", "BackupEnabled", "A", "B"}
      [] pattern = RX_APP_VALUE ->
            {"MyApp", "myapp", "AnotherApp", "TestApp", "anotherapp", "testapp"}
      [] pattern = RX_ENV_KEY -> {"Environment"}
      [] pattern = RX_OWNER_VALUE -> {"a@b.com", "your-email@example.com"}
      [] pattern = RX_RETENTION_VALUE -> {"30d", "90d", "1y", "5y", "Indefinite"}
      [] pattern = RX_ASSET_KEY -> {"AssetID"}
      [] pattern = RX_ASSET_VALUE ->
            {"asset-1", "asset-id-example", "1", "2", "3", "7", "True", "TRUE", "true", "False",
             "false", "None", "MyApp", "myapp", "OtherApp", "otherapp", "AnotherApp",
             "anotherapp", "TestApp", "testapp", "30d", "90d", "1y", "5y", "Indefinite",
             "indefinite", "Internal", "Public", "Confidential", "cc-1", "proj", "critical",
             "low", "medium", "high", "none", "financial", "single-region", "multi-region",
             "global", "potential-pii", "intellectual-property"}
      [] pattern = RX_EXCL_NAME -> {"dev-web", "test-db"}
      [] OTHER -> {}

\* re.match(pattern, s) as "error" (re.error raised), "match" or "nomatch"
ReMatch(pattern, s) ==
    IF ReError(pattern) THEN "error"
    ELSE IF s \in ReMatchSet(pattern) THEN "match" ELSE "nomatch"

----------------------------------------------------------------------------
(* Configuration *)

DEPLOYMENT_ENV == Upper(IF os_environ = "<unset>" THEN "NPE" ELSE os_environ)

\* variant: the allowed set does not follow the deployment mode
ALLOWED_ENV_VALUES_NoProd == <<"Non-production::DEV", "Non-production::QAT">>

ALLOWED_ENV_VALUES ==
    IF DEPLOYMENT_ENV = "PROD" THEN <<"Production::PRD">>
    ELSE <<"Non-production::DEV", "Non-production::QAT">>

ENV_SUGGESTION ==
    IF DEPLOYMENT_ENV = "PROD" THEN "Production::PRD" ELSE "Non-production::DEV (or QAT)"

\* a rule; <<>> and "" stand for an absent allowed_values / regex / description
Rule(key, allowed, ci, key_regex, value_regex, suggestion, description) ==
    [key |-> key, allowed_values |-> allowed, case_insensitive |-> ci,
     key_regex |-> key_regex, value_regex |-> value_regex,
     suggestion |-> suggestion, description |-> description]

GlobalRules ==
    << Rule("Application", <<"MyApp", "AnotherApp", "TestApp">>, TRUE,
            RX_APP_KEY, RX_APP_VALUE, "MyApp", ""),
       Rule("Environment", ALLOWED_ENV_VALUES, FALSE, RX_ENV_KEY, "", ENV_SUGGESTION, ""),
       Rule("Owner", <<>>, FALSE, "", RX_OWNER_VALUE, "your-email@example.com", "") >>

S3BucketRules ==
    << Rule("DataRetention", <<"30d", "1y", "5y", "Indefinite">>, FALSE,
            "", RX_RETENTION_VALUE, "30d", "Data retention policy"),
       Rule("Classification",
            <<"Public", "Internal", "Confidential", "Strictly Confidential">>, FALSE,
            "", "", "Internal", ""),
       Rule("breadth", <<"single-region", "multi-region", "global">>, FALSE,
            "", "", "single-region", "Geographic scope of the data/bucket usage"),
       Rule("sensitivity", <<"low", "medium", "high", "critical">>, FALSE,
            "", "", "medium", "Sensitivity level of the data stored"),
       Rule("danger", <<"none", "potential-pii", "financial", "intellectual-property">>, FALSE,
            "", "", "none", "Type of risk associated with data exposure") >>

InstanceRules ==
    << Rule("AssetID", <<>>, FALSE, RX_ASSET_KEY, RX_ASSET_VALUE, "asset-id-example",
            "Asset identifier from CMDB") >>

RdsClusterRules ==
    << Rule("PII", <<"true", "false">>, FALSE, "", "", "false", "") >>

MANDATORY_TAG_RULES ==
    "global" :> GlobalRules @@ "aws_s3_bucket" :> S3BucketRules @@
    "aws_instance" :> InstanceRules @@ "aws_rds_cluster" :> RdsClusterRules

OPTIONAL_TAGS ==
    << Rule("CostCenter", <<>>, FALSE, "", "", "cost-center-example", "Financial tracking code"),
       Rule("Project", <<>>, FALSE, "", "", "project-name", "Associated project name"),
       Rule("Terraform", <<"true", "false">>, TRUE, "", "", "true",
            "Indicates if the resource is managed by Terraform") >>

\* an exclusion rule; name_regex "" stands for "no name_regex"
EXCLUDED_RESOURCES ==
    << [type |-> "aws_iam_role", name_regex |-> ""],
       [type |-> "aws_iam_policy", name_regex |-> ""] >>
    \o (IF DEPLOYMENT_ENV # "PROD"
        THEN << [type |-> "aws_instance", name_regex |-> RX_EXCL_NAME] >>
        ELSE << >>)

CrossRule(if_key, if_value, then_key, then_value, message) ==
    [if_tag |-> [key |-> if_key, value |-> if_value],
     then_tag |-> [key |-> then_key, value |-> then_value],
     message |-> message]

CROSS_TAG_RULES ==
    "aws_instance" :>
        << CrossRule("Environment", "Production::PRD", "BackupEnabled", "true",
                     "Production instances MUST have 'BackupEnabled=true' tag.") >> @@
    "aws_s3_bucket" :>
        << CrossRule("sensitivity", "critical", "Classification", "Strictly Confidential",
                     "S3 Buckets with 'sensitivity=critical' MUST have 'Classification=Strictly Confidential' tag.") >>

\* dict.get(key, [])
DictGet(d, key) == IF key \in DOMAIN d THEN d[key] ELSE << >>

----------------------------------------------------------------------------
(* get_relevant_tag_rules *)

\* d[rule['key']] = rule on an insertion-ordered dict, kept as the sequence of its values
DictPutRule(d, rule) ==
    IF \E i \in 1..Len(d) : d[i].key = rule.key
    THEN [i \in 1..Len(d) |-> IF d[i].key = rule.key THEN rule ELSE d[i]]
    ELSE Append(d, rule)

RECURSIVE DictPutRules(_, _)
DictPutRules(d, rules) ==
    IF rules = << >> THEN d
    ELSE DictPutRules(DictPutRule(d, Head(rules)), Tail(rules))

\* variant: the global rules are merged last and win
MergeRules_GlobalWins(global_rules, resource_specific_rules) ==
    DictPutRules(DictPutRules(<< >>, resource_specific_rules), global_rules)

\* {rule['key']: rule for rule in global_rules}, then .update({... resource_specific_rules}),
\* then list(.values())
MergeRules(global_rules, resource_specific_rules) ==
    DictPutRules(DictPutRules(<< >>, global_rules), resource_specific_rules)

get_relevant_tag_rules_from(catalog, resource_type) ==
    [mandatory |-> MergeRules(DictGet(catalog, "global"), DictGet(catalog, resource_type)),
     optional |-> OPTIONAL_TAGS]

get_relevant_tag_rules(resource_type) ==
    get_relevant_tag_rules_from(MANDATORY_TAG_RULES, resource_type)

----------------------------------------------------------------------------
(* extract_tags *)

\* a resource configuration: tags / tags_all are dict attributes, tag is a list of
\* {key, value} items given as JSON values
Config(tags, tag, tags_all) == [tags |-> tags, tag |-> tag, tags_all |-> tags_all]

\* the loop over the 'tag' list
RECURSIVE AddTagList(_, _)
AddTagList(tags, tag_list) ==
    IF tag_list = << >> THEN tags
    ELSE LET tag_spec == Head(tag_list)
             ok == /\ tag_spec.key.t # "absent" /\ tag_spec.value.t # "absent"
                   /\ tag_spec.key.t = "str"
                   /\ tag_spec.value.t \in {"str", "num", "bool"}
         IN  AddTagList(IF ok THEN DictUpdate(tags, tag_spec.key.v :> JStr(Str(tag_spec.value)))
                        ELSE tags,
                        Tail(tag_list))

\* the warning extract_tags prints for an item of the 'tag' list that has both keys but
\* a key that is no string or a value that is no str, int, float or bool; the item's
\* repr that follows in the line is left out
WarnMalformedTagItem ==
    IF script = "Tagging_POLICY_Check" THEN "Skipping malformed tag item"
    ELSE "Skipping malformed tag item in list"

\* the else branch of the loop over the 'tag' list
RECURSIVE TagListWarnings(_)
TagListWarnings(tag_list) ==
    IF tag_list = << >> THEN << >>
    ELSE LET tag_spec == Head(tag_list)
             malformed == /\ tag_spec.key.t # "absent" /\ tag_spec.value.t # "absent"
                          /\ ~(/\ tag_spec.key.t = "str"
                               /\ tag_spec.value.t \in {"str", "num", "bool"})
         IN  (IF malformed THEN << WarnMalformedTagItem >> ELSE << >>)
             \o TagListWarnings(Tail(tag_list))

\* what one extract_tags call prints as warnings
ExtractTagsWarnings(resource_config) == TagListWarnings(resource_config.tag)

\* variant: tags_all is merged over the explicit tags
ExtractTagsMerged_TagsAllWins(resource_config) ==
    LET t1 == IF resource_config.tags.kind = "dict" THEN resource_config.tags.m ELSE EmptyMap
        t2 == AddTagList(t1, resource_config.tag)
    IN  IF resource_config.tags_all.kind = "dict"
        THEN DictUpdate(t2, resource_config.tags_all.m)
        ELSE t2

\* the dict named tags just before the final filter
ExtractTagsMerged(resource_config) ==
    LET t1 == IF resource_config.tags.kind = "dict" THEN resource_config.tags.m ELSE EmptyMap
        t2 == AddTagList(t1, resource_config.tag)
    IN  IF resource_config.tags_all.kind = "dict"
        THEN DictUpdate(resource_config.tags_all.m, t2)
        ELSE t2

extract_tags(resource_config) ==
    LET tags == ExtractTagsMerged(resource_config)
    IN  [k \in {x \in DOMAIN tags : tags[x].t # "null"} |-> tags[k]]

\* variant: the loop over the 'tag' list consumes it
ConfigAfterExtract_TagListConsumed(resource_config) ==
    IF resource_config.tags_all.kind = "dict"
    THEN [resource_config EXCEPT !.tags_all = DictAttr(ExtractTagsMerged(resource_config)),
                                 !.tag = << >>]
    ELSE [resource_config EXCEPT !.tag = << >>]

\* the configuration object after the call: tags = tags_all_dict; tags.update(base_tags)
\* writes into the caller's tags_all dict
ConfigAfterExtract(resource_config) ==
    IF resource_config.tags_all.kind = "dict"
    THEN [resource_config EXCEPT !.tags_all = DictAttr(ExtractTagsMerged(resource_config))]
    ELSE resource_config

\* tagging_deep_scan.py ---------------------------------------------------

\* bool(x) of a JSON value
Truthy(x) ==
    /\ x.t \notin {"absent", "null"}
    /\ ~(x.t = "str" /\ x.v = "")
    /\ ~(x.t = "num" /\ x.v = "0")
    /\ ~(x.t = "bool" /\ x.v = "False")

\* tags.update({str(k): str(v) for k, v in tag_source.items() if v is not None})
DeepScanUpdate(tags, m) ==
    DictUpdate(tags, [k \in {x \in DOMAIN m : m[x].t # "null"} |-> JStr(Str(m[k]))])

\* the loop over a list source: tag_spec.get('key') and tag_spec.get('value')
RECURSIVE DeepScanTagList(_, _)
DeepScanTagList(tags, tag_list) ==
    IF tag_list = << >> THEN tags
    ELSE LET tag_spec == Head(tag_list)
             ok == Truthy(tag_spec.key) /\ tag_spec.value.t \notin {"absent", "null"}
         IN  DeepScanTagList(IF ok THEN DictUpdate(tags, Str(tag_spec.key) :> JStr(Str(tag_spec.value)))
                             ELSE tags,
                             Tail(tag_list))

\* one round of the loop over tag_sources: a dict is merged, a list is read as tag
\* items, any other value is skipped
DeepScanSource(tags, tag_source) ==
    IF tag_source.kind = "dict" THEN DeepScanUpdate(tags, tag_source.m)
    ELSE IF tag_source.kind = "taglist" THEN DeepScanTagList(tags, tag_source.l)
    ELSE tags

\* tagging_deep_scan.py extract_tags: the sources are applied in the order tags, tags_all,
\* tag, each one overwriting the keys it shares with the earlier ones
deep_scan_extract_tags(resource_config) ==
    LET t1 == DeepScanSource(EmptyMap, resource_config.tags)
        t2 == DeepScanSource(t1, resource_config.tags_all)
    IN  DeepScanTagList(t2, resource_config.tag)

----------------------------------------------------------------------------
(* validation *)

SeqToSet(s) == {s[i] : i \in 1..Len(s)}

validate_tag_key(tag_key, rule) ==
    IF rule.key_regex # ""
    THEN ReMatch(rule.key_regex, tag_key) = "match"
    ELSE TRUE

\* variant: one satisfied constraint is enough when both are set
validate_tag_value_EitherConstraint(value, rule) ==
    LET tag_value == Str(value)
        check_value == IF rule.case_insensitive THEN Lower(tag_value) ELSE tag_value
        compare_list == IF rule.case_insensitive
                        THEN {Lower(v) : v \in SeqToSet(rule.allowed_values)}
                        ELSE SeqToSet(rule.allowed_values)
        allowed_ok == rule.allowed_values = << >> \/ check_value \in compare_list
        regex_ok == rule.value_regex = "" \/ ReMatch(rule.value_regex, tag_value) = "match"
    IN  IF rule.allowed_values # << >> /\ rule.value_regex # ""
        THEN allowed_ok \/ regex_ok
        ELSE allowed_ok /\ regex_ok

\* if not isinstance(tag_value, str): tag_value = str(tag_value); then the allowed_values
\* check and the value_regex check, each returning False on failure
validate_tag_value(value, rule) ==
    LET tag_value == Str(value)
        check_value == IF rule.case_insensitive THEN Lower(tag_value) ELSE tag_value
        compare_list == IF rule.case_insensitive
                        THEN {Lower(v) : v \in SeqToSet(rule.allowed_values)}
                        ELSE SeqToSet(rule.allowed_values)
    IN  IF rule.allowed_values # << >> /\ check_value \notin compare_list THEN FALSE
        ELSE IF rule.value_regex # "" /\ ReMatch(rule.value_regex, tag_value) # "match" THEN FALSE
        ELSE TRUE

\* variant: the key format is not checked before the value
MandatoryVerdict_KeyFormatUnchecked(resource_tags, rule) ==
    IF rule.key \notin DOMAIN resource_tags THEN "missing"
    ELSE IF ~validate_tag_value(resource_tags[rule.key], rule) THEN "invalid_value"
    ELSE "ok"

\* per mandatory rule: "missing", "invalid_key", "invalid_value" or "ok"
MandatoryVerdict(resource_tags, rule) ==
    IF rule.key \notin DOMAIN resource_tags THEN "missing"
    ELSE IF ~validate_tag_key(rule.key, rule) THEN "invalid_key"
    ELSE IF ~validate_tag_value(resource_tags[rule.key], rule) THEN "invalid_value"
    ELSE "ok"

RECURSIVE MissingMandatory(_, _)
MissingMandatory(resource_tags, rules) ==
    IF rules = << >> THEN << >>
    ELSE (IF MandatoryVerdict(resource_tags, Head(rules)) = "missing"
          THEN << [key |-> Head(rules).key, suggestion |-> Head(rules).suggestion] >>
          ELSE << >>) \o MissingMandatory(resource_tags, Tail(rules))

RECURSIVE InvalidTags(_, _)
InvalidTags(resource_tags, rules) ==
    IF rules = << >> THEN << >>
    ELSE LET rule == Head(rules)
             verdict == MandatoryVerdict(resource_tags, rule)
         IN  (IF verdict \in {"invalid_key", "invalid_value"}
              THEN << [key |-> rule.key, value |-> resource_tags[rule.key],
                       reason |-> IF verdict = "invalid_key" THEN "Invalid key format"
                                  ELSE "Invalid value",
                       suggestion |-> rule.suggestion] >>
              ELSE << >>) \o InvalidTags(resource_tags, Tail(rules))

RECURSIVE MissingOptional(_, _)
MissingOptional(resource_tags, rules) ==
    IF rules = << >> THEN << >>
    ELSE LET rule == Head(rules)
             check_key == IF rule.case_insensitive THEN Lower(rule.key) ELSE rule.key
             present_set == IF rule.case_insensitive
                            THEN {Lower(k) : k \in DOMAIN resource_tags}
                            ELSE DOMAIN resource_tags
         IN  (IF check_key \notin present_set
              THEN << [key |-> rule.key, suggestion |-> rule.suggestion] >>
              ELSE << >>) \o MissingOptional(resource_tags, Tail(rules))

check_tag_compliance(resource_tags, mandatory_rules, optional_rules) ==
    [missing |-> MissingMandatory(resource_tags, mandatory_rules),
     invalid |-> InvalidTags(resource_tags, mandatory_rules),
     optional |-> MissingOptional(resource_tags, optional_rules)]

\* the warnings printed by validate_tag_key / validate_tag_value when re.match raises
WarnInvalidKeyRegex(key) == "Invalid regex for key '" \o key \o "'"
WarnInvalidValueRegex(key) == "Invalid regex for value of key '" \o key \o "'"

\* validate_tag_value reaches the regex (the allowed_values check passed) and re.match raises
ValueRegexWarns(value, rule) ==
    LET tag_value == Str(value)
        check_value == IF rule.case_insensitive THEN Lower(tag_value) ELSE tag_value
        compare_list == IF rule.case_insensitive
                        THEN {Lower(v) : v \in SeqToSet(rule.allowed_values)}
                        ELSE SeqToSet(rule.allowed_values)
    IN  /\ rule.allowed_values = << >> \/ check_value \in compare_list
        /\ rule.value_regex # ""
        /\ ReError(rule.value_regex)

\* the warnings of the loop over the mandatory rules, one per call that raises
RECURSIVE MandatoryWarnings(_, _)
MandatoryWarnings(resource_tags, rules) ==
    IF rules = << >> THEN << >>
    ELSE LET rule == Head(rules)
         IN  (IF rule.key \notin DOMAIN resource_tags THEN << >>
              ELSE IF rule.key_regex # "" /\ ReError(rule.key_regex)
                   THEN << WarnInvalidKeyRegex(rule.key) >>
              ELSE IF ~validate_tag_key(rule.key, rule) THEN << >>
              ELSE IF ValueRegexWarns(resource_tags[rule.key], rule)
                   THEN << WarnInvalidValueRegex(rule.key) >>
              ELSE << >>) \o MandatoryWarnings(resource_tags, Tail(rules))

\* Tagging_POLICY_Check.py line 345: the warning for a present optional tag whose value
\* is invalid (the other two scripts print this line as "Info:"); the address, the value
\* and the rule's constraints that the line also shows are left out
WarnOptionalInvalid(key) == "Optional tag '" \o key \o "' has invalid value"

\* the warnings of the loop over the optional rules: the value of a present optional tag
\* is validated too
RECURSIVE OptionalWarnings(_, _)
OptionalWarnings(resource_tags, rules) ==
    IF rules = << >> THEN << >>
    ELSE LET rule == Head(rules)
             present == rule.key \in DOMAIN resource_tags
         IN  (IF present /\ ValueRegexWarns(resource_tags[rule.key], rule)
              THEN << WarnInvalidValueRegex(rule.key) >>
              ELSE << >>)
             \o (IF /\ script = "Tagging_POLICY_Check"
                    /\ present
                    /\ ~validate_tag_value(resource_tags[rule.key], rule)
                 THEN << WarnOptionalInvalid(rule.key) >>
                 ELSE << >>)
             \o OptionalWarnings(resource_tags, Tail(rules))

\* what check_tag_compliance prints as warnings for one resource
ComplianceWarnings(resource_tags, mandatory_rules, optional_rules) ==
    MandatoryWarnings(resource_tags, mandatory_rules)
    \o OptionalWarnings(resource_tags, optional_rules)

\* variant: the if-condition looks at the key only, not at its value
CrossRuleViolated_AnyIfValue(resource_tags, rule) ==
    LET then_key == rule.then_tag.key
    IN  /\ rule.if_tag.key \in DOMAIN resource_tags
        /\ ~(/\ then_key \in DOMAIN resource_tags
              /\ resource_tags[then_key] = JStr(rule.then_tag.value))

\* the if-condition of a cross-tag rule is met and its then-condition is not
CrossRuleViolated(resource_tags, rule) ==
    LET if_key == rule.if_tag.key
        then_key == rule.then_tag.key
        if_met == /\ if_key \in DOMAIN resource_tags
                  /\ resource_tags[if_key] = JStr(rule.if_tag.value)
        then_met == /\ then_key \in DOMAIN resource_tags
                    /\ resource_tags[then_key] = JStr(rule.then_tag.value)
    IN  if_met /\ ~then_met

\* message + f" (Expected '{then_key}={then_value}')", kept as its three parts
CrossTagMessage(rule) == <<rule.message, rule.then_tag.key, rule.then_tag.value>>

RECURSIVE CrossTagViolations(_, _)
CrossTagViolations(resource_tags, rules) ==
    IF rules = << >> THEN << >>
    ELSE (IF CrossRuleViolated(resource_tags, Head(rules))
          THEN << CrossTagMessage(Head(rules)) >> ELSE << >>)
         \o CrossTagViolations(resource_tags, Tail(rules))

check_cross_tag_rules(resource_tags, resource_type) ==
    CrossTagViolations(resource_tags, DictGet(CROSS_TAG_RULES, resource_type))

\* resource_address is <<type, name>>; resource_address.split('.')[-1] is the name
RECURSIVE ExcludedBy(_, _, _)
ExcludedBy(rules, resource_type, name) ==
    IF rules = << >> THEN FALSE
    ELSE LET exclusion_rule == Head(rules)
         IN  IF exclusion_rule.type = resource_type
             THEN IF exclusion_rule.name_regex # ""
                  THEN IF ReMatch(exclusion_rule.name_regex, name) = "match" THEN TRUE
                       ELSE ExcludedBy(Tail(rules), resource_type, name)
                  ELSE TRUE
             ELSE ExcludedBy(Tail(rules), resource_type, name)

is_resource_excluded(resource_type, resource_address) ==
    ExcludedBy(EXCLUDED_RESOURCES, resource_type, resource_address[2])

----------------------------------------------------------------------------
(* The plan document *)

ListAttr(l) == [kind |-> "list", l |-> l]
AbsentList == [kind |-> "absent", l |-> << >>]
NullList == [kind |-> "null", l |-> << >>]

\* One record of resource_changes or of planned_values.root_module.resources.
\*   actions             the record's own 'actions' key (what resource.get('actions') reads)
\*   change_actions      change.actions
\*   config              change.after, or values in the planned_values shape
\*   config_other_attrs  the configuration has attributes other than tags / tag / tags_all
\*   tags_unknown        change.after_unknown.tags is true
\*   tags_all_unknown    change.after_unknown.tags_all is true
\*   type_hashable       the 'type' value is a string; when FALSE it is a JSON list and
\*                       type holds its str() form
Resource(type, name, actions, change_actions, config, other_attrs, tags_unknown) ==
    [type |-> type, address |-> <<type, name>>, actions |-> actions,
     change_actions |-> change_actions, config |-> config,
     config_other_attrs |-> other_attrs, tags_unknown |-> tags_unknown,
     tags_all_unknown |-> FALSE, type_hashable |-> TRUE]

PlanDoc(file, resource_changes, planned_values) ==
    [file |-> file, resource_changes |-> resource_changes, planned_values |-> planned_values]

\* bool(config) of a dict
ConfigTruthy(resource) ==
    \/ resource.config_other_attrs
    \/ resource.config.tags.kind # "absent"
    \/ resource.config.tags_all.kind # "absent"
    \/ resource.config.tag # << >>

----------------------------------------------------------------------------
(* violations_by_resource: an insertion-ordered dict address -> issues, kept as the  *)
(* sequence of its items.  In an issues record an empty list or "" stands for a key   *)
(* that is absent or empty (issues.get(key) is falsy in both cases).                  *)

NoIssues == [missing |-> << >>, invalid |-> << >>, cross_tag |-> << >>,
             optional |-> << >>, analysis_error |-> ""]

HasEntry(d, address) == \E i \in 1..Len(d) : d[i].resource = address

EntryOf(d, address) ==
    IF HasEntry(d, address)
    THEN d[CHOOSE i \in 1..Len(d) : d[i].resource = address].issues
    ELSE NoIssues

PutEntry(d, address, issues) ==
    IF HasEntry(d, address)
    THEN [i \in 1..Len(d) |-> IF d[i].resource = address
                              THEN [resource |-> address, issues |-> issues] ELSE d[i]]
    ELSE Append(d, [resource |-> address, issues |-> issues])

\* issues.get("missing") or issues.get("invalid") or issues.get("cross_tag")
\*   or issues.get("analysis_error")
HasCritical(issues) ==
    \/ issues.missing # << >>
    \/ issues.invalid # << >>
    \/ issues.cross_tag # << >>
    \/ issues.analysis_error # ""

----------------------------------------------------------------------------
(* Reports *)

RECURSIVE CountCritical(_)
CountCritical(d) ==
    IF d = << >> THEN 0
    ELSE (IF HasCritical(Head(d).issues) THEN 1 ELSE 0) + CountCritical(Tail(d))

JsonEntry(item) ==
    [resource |-> item.resource,
     missing_mandatory |-> item.issues.missing,
     invalid_tags |-> item.issues.invalid,
     cross_tag_errors |-> item.issues.cross_tag,
     analysis_error |-> item.issues.analysis_error,
     missing_optional_suggestions |-> item.issues.optional]

RECURSIVE MapJsonEntry(_)
MapJsonEntry(d) ==
    IF d = << >> THEN << >> ELSE << JsonEntry(Head(d)) >> \o MapJsonEntry(Tail(d))

\* variant: an entry that holds only an analysis error is not a violation
IsCriticalItem_WithoutAnalysisError(item) ==
    \/ item.issues.missing # << >>
    \/ item.issues.invalid # << >>
    \/ item.issues.cross_tag # << >>

IsCriticalItem(item) == HasCritical(item.issues)
IsOptionalOnlyItem(item) == item.issues.optional # << >> /\ ~HasCritical(item.issues)

\* variant: every entry of the map is counted as a violation
generate_json_report_tnw_CountAll(d, total_resources, excluded_count) ==
    [summary |-> [total_resources_in_plan |-> total_resources + excluded_count,
                  excluded_resources |-> excluded_count,
                  analyzed_resources |-> total_resources,
                  compliant_resources |-> total_resources - Len(d),
                  resources_with_violations |-> Len(d),
                  deployment_environment_mode |-> DEPLOYMENT_ENV],
     violations |-> MapJsonEntry(SelectSeq(d, IsCriticalItem)),
     optional_suggestions_only |-> MapJsonEntry(SelectSeq(d, IsOptionalOnlyItem))]

\* tag_not_worked.py generate_json_report
generate_json_report_tnw(d, total_resources, excluded_count) ==
    [summary |-> [total_resources_in_plan |-> total_resources + excluded_count,
                  excluded_resources |-> excluded_count,
                  analyzed_resources |-> total_resources,
                  compliant_resources |-> total_resources - CountCritical(d),
                  resources_with_violations |-> CountCritical(d),
                  deployment_environment_mode |-> DEPLOYMENT_ENV],
     violations |-> MapJsonEntry(SelectSeq(d, IsCriticalItem)),
     optional_suggestions_only |-> MapJsonEntry(SelectSeq(d, IsOptionalOnlyItem))]

\* Tagging_POLICY_Check.py generate_json_report (its entries carry no analysis_error)
generate_json_report_tpc(d, total_resources, excluded_count) ==
    [summary |-> [total_resources_in_plan |-> total_resources + excluded_count,
                  excluded_resources |-> excluded_count,
                  analyzed_resources |-> total_resources,
                  compliant_resources |-> total_resources - Len(d),
                  resources_with_violations |-> Len(d),
                  deployment_environment_mode |-> DEPLOYMENT_ENV],
     violations |-> [i \in 1..Len(d) |-> [JsonEntry(d[i]) EXCEPT !.analysis_error = ""]],
     optional_suggestions_only |-> << >>]

\* tagging_solution_debug.py generate_json_report (no optional_suggestions_only list)
generate_json_report_tsd(d, total_resources, excluded_count) ==
    [summary |-> [total_resources_in_plan |-> total_resources + excluded_count,
                  excluded_resources |-> excluded_count,
                  analyzed_resources |-> total_resources,
                  compliant_resources |-> total_resources - CountCritical(d),
                  resources_with_violations |-> CountCritical(d),
                  deployment_environment_mode |-> DEPLOYMENT_ENV],
     violations |-> MapJsonEntry(SelectSeq(d, IsCriticalItem)),
     optional_suggestions_only |-> << >>]

generate_json_report(d, total_resources, excluded_count) ==
    CASE script = "tag_not_worked" -> generate_json_report_tnw(d, total_resources, excluded_count)
      [] script = "Tagging_POLICY_Check" ->
            generate_json_report_tpc(d, total_resources, excluded_count)
      [] OTHER -> generate_json_report_tsd(d, total_resources, excluded_count)

----------------------------------------------------------------------------
(* generate_console_report.  The text is kept as its parts: the summary numbers, the  *)
(* heading line that follows them, the resource blocks printed after it and the       *)
(* blocks of the 'Optional Tag Suggestions' section, each in printing order.          *)

\* the addresses of the model in the order of Python's string comparison
AddressOrder ==
    << <<"aws_iam_role", "admin">>, <<"aws_instance", "dev-web">>, <<"aws_instance", "web">>,
       <<"aws_s3_bucket", "data">>, <<"aws_s3_bucket", "logs">>, <<"aws_vpc", "main">> >>

AddressRank(address) == CHOOSE i \in 1..Len(AddressOrder) : AddressOrder[i] = address

\* address a sorts before address b
AddressLess(a, b) == AddressRank(a) < AddressRank(b)

\* sorted(d.items()) of a dict: the keys are distinct, so the items are ordered by key
SortedItems(d) ==
    [i \in 1..Len(d) |->
        d[CHOOSE j \in 1..Len(d) :
            Cardinality({k \in 1..Len(d) : AddressLess(d[k].resource, d[j].resource)}) = i - 1]]

\* one resource block of the violation details
DetailBlock(item) ==
    [resource |-> item.resource, analysis_error |-> item.issues.analysis_error,
     missing |-> item.issues.missing, invalid |-> item.issues.invalid,
     cross_tag |-> item.issues.cross_tag, optional |-> << >>]

\* one resource block of the 'Optional Tag Suggestions' section
OptionalBlock(item) == [resource |-> item.resource, optional |-> item.issues.optional]

MapDetailBlock(d) == [i \in 1..Len(d) |-> DetailBlock(d[i])]
MapOptionalBlock(d) == [i \in 1..Len(d) |-> OptionalBlock(d[i])]

ConsoleSummary(total_resources, excluded_count, violation_count) ==
    [total_resources_in_plan |-> total_resources + excluded_count,
     excluded_resources |-> excluded_count,
     analyzed_resources |-> total_resources,
     compliant_resources |-> total_resources - violation_count,
     resources_with_violations |-> violation_count,
     deployment_environment_mode |-> DEPLOYMENT_ENV]

\* tag_not_worked.py generate_console_report; the branch "no resources meeting analysis
\* criteria" asks for total + excluded > 0 with both 0 and is never taken
generate_console_report_tnw(d, total_resources, excluded_count) ==
    LET critical_violation_count == CountCritical(d)
    IN  [summary |-> ConsoleSummary(total_resources, excluded_count, critical_violation_count),
         heading |-> IF critical_violation_count = 0 /\ total_resources > 0 THEN "all_comply"
                     ELSE IF total_resources = 0 /\ excluded_count = 0 THEN "no_resources"
                     ELSE IF critical_violation_count > 0 THEN "violation_details"
                     ELSE "",
         details |-> MapDetailBlock(SelectSeq(SortedItems(d), IsCriticalItem)),
         optional_heading |-> SelectSeq(d, IsOptionalOnlyItem) # << >>,
         optional_suggestions |->
             MapOptionalBlock(SortedItems(SelectSeq(d, IsOptionalOnlyItem)))]

\* Tagging_POLICY_Check.py generate_console_report: every entry of the map is printed
\* under the details heading, its optional suggestions inside its block, and there is
\* no analysis-error line
generate_console_report_tpc(d, total_resources, excluded_count) ==
    [summary |-> ConsoleSummary(total_resources, excluded_count, Len(d)),
     heading |-> IF d = << >> THEN "all_comply" ELSE "violation_details",
     details |-> [i \in 1..Len(d) |->
                     [DetailBlock(d[i]) EXCEPT !.analysis_error = "",
                                               !.optional = d[i].issues.optional]],
     optional_heading |-> FALSE,
     optional_suggestions |-> << >>]

\* tagging_solution_debug.py generate_console_report: the dict is iterated unsorted
generate_console_report_tsd(d, total_resources, excluded_count) ==
    LET critical_violation_count == CountCritical(d)
    IN  [summary |-> ConsoleSummary(total_resources, excluded_count, critical_violation_count),
         heading |-> IF critical_violation_count = 0 /\ total_resources > 0 THEN "all_comply"
                     ELSE IF total_resources = 0 /\ excluded_count = 0 THEN "no_resources"
                     ELSE IF critical_violation_count > 0 THEN "violation_details"
                     ELSE "",
         details |-> MapDetailBlock(SelectSeq(d, IsCriticalItem)),
         optional_heading |-> SelectSeq(d, IsOptionalOnlyItem) # << >>,
         optional_suggestions |-> MapOptionalBlock(SelectSeq(d, IsOptionalOnlyItem))]

generate_console_report(d, total_resources, excluded_count) ==
    CASE script = "tag_not_worked" ->
            generate_console_report_tnw(d, total_resources, excluded_count)
      [] script = "Tagging_POLICY_Check" ->
            generate_console_report_tpc(d, total_resources, excluded_count)
      [] OTHER -> generate_console_report_tsd(d, total_resources, excluded_count)

NoConsoleReport ==
    [summary |-> [total_resources_in_plan |-> 0, excluded_resources |-> 0,
                  analyzed_resources |-> 0, compliant_resources |-> 0,
                  resources_with_violations |-> 0, deployment_environment_mode |-> ""],
     heading |-> "", details |-> << >>, optional_heading |-> FALSE,
     optional_suggestions |-> << >>]

NoReport == [summary |-> [total_resources_in_plan |-> 0, excluded_resources |-> 0,
                          analyzed_resources |-> 0, compliant_resources |-> 0,
                          resources_with_violations |-> 0,
                          deployment_environment_mode |-> ""],
             violations |-> << >>, optional_suggestions_only |-> << >>]

\* main: any(... for issues in violations.values())
has_critical_violations(d) == \E i \in 1..Len(d) : HasCritical(d[i].issues)

----------------------------------------------------------------------------
(* analyze_terraform_plan: selection of the resource list *)

\* which top-level key the analysis iterates: resource_changes wins when present.
\* A null planned_values stands for "planned_values": null, which no script takes as
\* the planned_values shape (tag_not_worked.py: "not a dictionary", lines 480-497).
PlanFormat(doc) ==
    IF doc.resource_changes.kind # "absent" THEN "resource_changes"
    ELSE IF doc.planned_values.kind = "list" THEN "planned_values"
    ELSE "none"

ResourcesToCheck(doc) ==
    IF PlanFormat(doc) = "resource_changes" THEN doc.resource_changes.l
    ELSE IF PlanFormat(doc) = "planned_values" THEN doc.planned_values.l
    ELSE << >>

\* Tagging_POLICY_Check.py iterates plan_data.get('resource_changes', []) and
\* tagging_solution_debug.py takes its len() without looking at its type: a null value
\* raises TypeError outside the loop's try, and main does not catch it.  Without a
\* resource_changes key both evaluate 'root_module' in plan_data['planned_values'],
\* which raises TypeError on a null planned_values.
\* tag_not_worked.py checks isinstance(..., list) / isinstance(..., dict) and goes on
\* with an empty list.
ResourceListRaises(doc) ==
    /\ script # "tag_not_worked"
    /\ \/ doc.resource_changes.kind = "null"
       \/ doc.resource_changes.kind = "absent" /\ doc.planned_values.kind = "null"

\* "create" in actions or "update" in actions [or ("replace" in actions and "delete" not in actions)]
ActionsSelect(actions) ==
    \/ "create" \in SeqToSet(actions)
    \/ "update" \in SeqToSet(actions)
    \/ /\ script = "tag_not_worked"
       /\ "replace" \in SeqToSet(actions)
       /\ "delete" \notin SeqToSet(actions)

TYPE_ERROR_NONE == "argument of type 'NoneType' is not iterable"
TYPE_ERROR_UNHASHABLE == "unhashable type: 'list'"

\* what one loop iteration does with a record:
\*   "error"          an exception is raised before the record is counted and caught by
\*                    the per-resource handler
\*   "skip"           continue without counting
\*   "unknown"        tags are computed at apply time: counted as analyzed, not validated
\*   "excluded"       counted as excluded
\*   "analyze"        counted as analyzed and validated
\*   "analyze_error"  counted as analyzed, tags extracted, then the rule lookup raises
\*                    and the per-resource handler catches it
tnw_outcome(format, resource) ==
    IF format = "resource_changes"
    THEN IF resource.actions.kind = "null" THEN "error"
         ELSE IF ActionsSelect(resource.actions.l)
              THEN IF resource.tags_unknown \/ resource.tags_all_unknown THEN "unknown"
                   ELSE IF is_resource_excluded(resource.type, resource.address)
                        THEN "excluded" ELSE "analyze"
              ELSE "skip"
    ELSE IF ConfigTruthy(resource)
         THEN IF is_resource_excluded(resource.type, resource.address)
              THEN "excluded" ELSE "analyze"
         ELSE "skip"

tpc_outcome(format, resource) ==
    IF format = "resource_changes"
    THEN IF resource.actions.kind = "null" THEN "error"
         ELSE IF ActionsSelect(resource.actions.l)
              THEN IF is_resource_excluded(resource.type, resource.address)
                   THEN "excluded" ELSE "analyze"
              ELSE "skip"
    ELSE IF ConfigTruthy(resource)
         THEN IF is_resource_excluded(resource.type, resource.address)
              THEN "excluded" ELSE "analyze"
         ELSE "skip"

tsd_outcome(format, resource) ==
    IF format = "resource_changes"
    THEN IF resource.actions.kind = "null" THEN "error"
         ELSE IF ActionsSelect(resource.actions.l)
              THEN IF resource.tags_all_unknown THEN "unknown"
                   ELSE IF is_resource_excluded(resource.type, resource.address)
                        THEN "excluded" ELSE "analyze"
              ELSE "skip"
    ELSE IF ConfigTruthy(resource)
         THEN IF is_resource_excluded(resource.type, resource.address)
              THEN "excluded" ELSE "analyze"
         ELSE "skip"

\* variant: a re.error raised while a rule is evaluated leaves validate_tag_key /
\* validate_tag_value and reaches the except handler of the loop
Outcome_RegexErrorPropagates(format, resource) ==
    LET o == CASE script = "tag_not_worked" -> tnw_outcome(format, resource)
               [] script = "Tagging_POLICY_Check" -> tpc_outcome(format, resource)
               [] OTHER -> tsd_outcome(format, resource)
        rules == get_relevant_tag_rules(resource.type).mandatory
        hits_error == \E i \in 1..Len(rules) :
                         /\ rules[i].key \in DOMAIN extract_tags(resource.config)
                         /\ ReError(rules[i].key_regex) \/ ReError(rules[i].value_regex)
    IN  IF o = "analyze" /\ (~resource.type_hashable \/ hits_error)
        THEN "analyze_error" ELSE o

\* MANDATORY_TAG_RULES.get(resource_type, []) raises TypeError on a list
Outcome(format, resource) ==
    LET o == CASE script = "tag_not_worked" -> tnw_outcome(format, resource)
               [] script = "Tagging_POLICY_Check" -> tpc_outcome(format, resource)
               [] OTHER -> tsd_outcome(format, resource)
    IN  IF o = "analyze" /\ ~resource.type_hashable THEN "analyze_error" ELSE o

\* the findings of the rule evaluation of one record
Findings(resource) ==
    LET tags == extract_tags(resource.config)
        rules == get_relevant_tag_rules(resource.type)
        c == check_tag_compliance(tags, rules.mandatory, rules.optional)
    IN  [missing |-> c.missing, invalid |-> c.invalid, optional |-> c.optional,
         cross_tag |-> check_cross_tag_rules(tags, resource.type), analysis_error |-> ""]

\* the warnings check_tag_compliance prints while one record is evaluated
FindingsWarnings(resource) ==
    LET tags == extract_tags(resource.config)
        rules == get_relevant_tag_rules(resource.type)
    IN  ComplianceWarnings(tags, rules.mandatory, rules.optional)

\* tag_not_worked.py lines 603-613
tnw_store(d, address, f) ==
    LET e0 == EntryOf(d, address)
        e1 == IF f.missing # << >> \/ f.invalid # << >> \/ f.cross_tag # << >>
              THEN [e0 EXCEPT !.missing = f.missing, !.invalid = f.invalid,
                              !.cross_tag = f.cross_tag]
              ELSE e0
        e2 == IF f.optional # << >> THEN [e1 EXCEPT !.optional = f.optional] ELSE e1
    IN  PutEntry(d, address, e2)

\* Tagging_POLICY_Check.py lines 592-602
tpc_store(d, address, f) ==
    IF f.missing # << >> \/ f.invalid # << >> \/ f.cross_tag # << >>
    THEN PutEntry(d, address, f)
    ELSE IF f.optional # << >> /\ ~HasEntry(d, address)
         THEN PutEntry(d, address, [NoIssues EXCEPT !.optional = f.optional])
         ELSE d

\* tagging_solution_debug.py lines 681-698
tsd_store(d, address, f) ==
    LET e0 == EntryOf(d, address)
        e1 == IF f.missing # << >> \/ f.invalid # << >> \/ f.cross_tag # << >>
              THEN LET e == [e0 EXCEPT !.missing = f.missing, !.invalid = f.invalid,
                                       !.cross_tag = f.cross_tag]
                   IN  IF f.optional # << >> THEN [e EXCEPT !.optional = f.optional] ELSE e
              ELSE IF f.optional # << >> THEN [e0 EXCEPT !.optional = f.optional]
              ELSE e0
    IN  PutEntry(d, address, e1)

\* the except handlers
tnw_store_error(d, address, message) ==
    PutEntry(d, address, [EntryOf(d, address) EXCEPT !.analysis_error = message])

tpc_store_error(d, address, message) ==
    IF HasEntry(d, address) THEN d
    ELSE PutEntry(d, address, [NoIssues EXCEPT !.analysis_error = message])

tsd_store_error(d, address, message) ==
    PutEntry(d, address, [EntryOf(d, address) EXCEPT !.analysis_error = message])

Store(d, address, f) ==
    CASE script = "tag_not_worked" -> tnw_store(d, address, f)
      [] script = "Tagging_POLICY_Check" -> tpc_store(d, address, f)
      [] OTHER -> tsd_store(d, address, f)

StoreError(d, address, message) ==
    CASE script = "tag_not_worked" -> tnw_store_error(d, address, message)
      [] script = "Tagging_POLICY_Check" -> tpc_store_error(d, address, message)
      [] OTHER -> tsd_store_error(d, address, message)

\* the plan document after extract_tags ran on record i of the selected list
PlanAfterExtract(doc, i) ==
    LET upd(l) == [l EXCEPT ![i].config = ConfigAfterExtract(l[i].config)]
    IN  IF PlanFormat(doc) = "resource_changes"
        THEN [doc EXCEPT !.resource_changes.l = upd(@)]
        ELSE [doc EXCEPT !.planned_values.l = upd(@)]

----------------------------------------------------------------------------
(* The run: main *)

\* the line load_terraform_plan prints for a plan object with neither key, after its
\* 'Warning:' label
WARN_PLAN_KEYS ==
    IF script = "Tagging_POLICY_Check"
    THEN "'resource_changes' or 'planned_values' not found in the plan. Analysis might be incomplete."
    ELSE "'resource_changes' or 'planned_values' not found at the top level of the plan. Analysis might be incomplete or fail."

\* the line analyze_terraform_plan prints before it returns ({}, 0, 0), after its
\* 'Warning:' label
WARN_NO_RESOURCE_LIST ==
    CASE script = "tag_not_worked" ->
           "Could not find a list of resources to analyze in the plan."
      [] script = "Tagging_POLICY_Check" ->
           "Could not find recognizable resource list in plan data."
      [] script = "tagging_solution_debug" ->
           "Could not find recognizable resource list in plan data under 'resource_changes' or 'planned_values.root_module.resources'."

\* variant: a plan object with neither key ends the process like a parse failure
CheckPlanKeys_UnknownShapeFatal(doc) ==
    IF doc.resource_changes.kind = "absent" /\ doc.planned_values.kind = "absent"
    THEN [loaded |-> FALSE, exit_status |-> 1, warns |-> FALSE]
    ELSE [loaded |-> TRUE, exit_status |-> -1, warns |-> FALSE]

\* load_terraform_plan after json.load: a plan object with neither 'resource_changes'
\* nor 'planned_values' is returned after a warning
CheckPlanKeys(doc) ==
    [loaded |-> TRUE,
     exit_status |-> -1,
     warns |-> /\ doc.resource_changes.kind = "absent"
               /\ doc.planned_values.kind = "absent"]

\* variant: every failure is treated as an empty plan object
load_terraform_plan_EmptyPlanOnError(doc) == CheckPlanKeys(doc)

\* load_terraform_plan: a missing file, unparseable content or a JSON value that is not an
\* object ends the process through sys.exit(message), which exits with status 1
load_terraform_plan(doc) ==
    IF doc.file = "ok"
    THEN CheckPlanKeys(doc)
    ELSE [loaded |-> FALSE, exit_status |-> 1, warns |-> FALSE]

\* python compiles the whole file before it runs its first statement: the text that
\* follows main in Tagging_POLICY_Check.py (an unterminated string literal at line 681)
\* is a SyntaxError, the process prints nothing to stdout and ends with status 1
SyntaxErrorExit ==
    /\ pc = "start"
    /\ ~source_parses
    /\ pc' = "syntax_error"
    /\ exit_code' = 1
    /\ UNCHANGED <<script, source_parses, args_json, os_environ, re_rejects_inline_flag,
                   plan_data, index, plan_format_used, violations_by_resource,
                   analyzed_resources_count, excluded_resources_count, report,
                   console_report, warnings, call, ret>>

\* main: plan_data = load_terraform_plan(args.plan_file)
LoadPlan ==
    /\ pc = "start"
    /\ source_parses
    /\ LET loaded == load_terraform_plan(plan_data)
       IN  IF loaded.loaded
           THEN /\ pc' = "select"
                /\ warnings' = IF loaded.warns
                               THEN Append(warnings, WARN_PLAN_KEYS) ELSE warnings
                /\ UNCHANGED exit_code
           ELSE pc' = "exited" /\ exit_code' = loaded.exit_status /\ UNCHANGED warnings
    /\ UNCHANGED <<script, source_parses, args_json, os_environ, re_rejects_inline_flag, plan_data,
                   index, plan_format_used, violations_by_resource,
                   analyzed_resources_count, excluded_resources_count, report,
                   console_report, call, ret>>

\* the analysis returns ({}, 0, 0) after a warning: in tag_not_worked.py and
\* tagging_solution_debug.py when the selected list is empty, in Tagging_POLICY_Check.py
\* when neither shape is found
WarnsNoResourceList(doc) ==
    IF script = "Tagging_POLICY_Check" THEN PlanFormat(doc) = "none"
    ELSE ResourcesToCheck(doc) = << >>

\* analyze_terraform_plan up to the loop
SelectResources ==
    /\ pc = "select"
    /\ plan_format_used' = PlanFormat(plan_data)
    /\ index' = 1
    /\ IF ResourceListRaises(plan_data)
       THEN \* the uncaught exception ends the process with status 1
            pc' = "exited" /\ exit_code' = 1 /\ UNCHANGED warnings
       ELSE /\ pc' = IF ResourcesToCheck(plan_data) = << >> THEN "report" ELSE "loop"
            /\ warnings' = IF WarnsNoResourceList(plan_data)
                           THEN Append(warnings, WARN_NO_RESOURCE_LIST) ELSE warnings
            /\ UNCHANGED exit_code
    /\ UNCHANGED <<script, source_parses, args_json, os_environ, re_rejects_inline_flag, plan_data,
                   violations_by_resource, analyzed_resources_count,
                   excluded_resources_count, report, console_report, call, ret>>

\* one iteration of the loop over resources_to_check, its except handler included
ProcessResource ==
    /\ pc = "loop"
    /\ index <= Len(ResourcesToCheck(plan_data))
    /\ LET resource == ResourcesToCheck(plan_data)[index]
           outcome == Outcome(plan_format_used, resource)
       IN  /\ analyzed_resources_count' =
                 IF outcome \in {"unknown", "analyze", "analyze_error"}
                 THEN analyzed_resources_count + 1 ELSE analyzed_resources_count
           /\ excluded_resources_count' =
                 IF outcome = "excluded"
                 THEN excluded_resources_count + 1 ELSE excluded_resources_count
           /\ violations_by_resource' =
                 CASE outcome = "analyze" ->
                        Store(violations_by_resource, resource.address, Findings(resource))
                   [] outcome = "error" ->
                        StoreError(violations_by_resource, resource.address, TYPE_ERROR_NONE)
                   [] outcome = "analyze_error" ->
                        StoreError(violations_by_resource, resource.address,
                                   TYPE_ERROR_UNHASHABLE)
                   [] OTHER -> violations_by_resource
           /\ plan_data' = IF outcome \in {"analyze", "analyze_error"}
                           THEN PlanAfterExtract(plan_data, index)
                           ELSE plan_data
           /\ warnings' =
                 warnings
                 \o (IF outcome \in {"analyze", "analyze_error"}
                     THEN ExtractTagsWarnings(resource.config) ELSE << >>)
                 \o (IF outcome = "analyze" THEN FindingsWarnings(resource) ELSE << >>)
    /\ index' = index + 1
    /\ UNCHANGED <<script, source_parses, args_json, os_environ, re_rejects_inline_flag, pc,
                   plan_format_used, report, console_report, exit_code, call, ret>>

EndLoop ==
    /\ pc = "loop"
    /\ index > Len(ResourcesToCheck(plan_data))
    /\ pc' = "report"
    /\ UNCHANGED <<script, source_parses, args_json, os_environ, re_rejects_inline_flag, plan_data,
                   index, plan_format_used, violations_by_resource,
                   analyzed_resources_count, excluded_resources_count, report,
                   console_report, warnings, exit_code, call, ret>>

\* main: the JSON report with --json, the console report otherwise
GenerateReport ==
    /\ pc = "report"
    /\ IF args_json
       THEN /\ report' = generate_json_report(violations_by_resource,
                                              analyzed_resources_count,
                                              excluded_resources_count)
            /\ UNCHANGED console_report
       ELSE /\ console_report' = generate_console_report(violations_by_resource,
                                                         analyzed_resources_count,
                                                         excluded_resources_count)
            /\ UNCHANGED report
    /\ pc' = "exit"
    /\ UNCHANGED <<script, source_parses, args_json, os_environ, re_rejects_inline_flag, plan_data,
                   index, plan_format_used, violations_by_resource,
                   analyzed_resources_count, excluded_resources_count,
                   warnings, exit_code, call, ret>>

\* sys.exit(1 if has_critical_violations else 0)
Exit ==
    /\ pc = "exit"
    /\ exit_code' = IF has_critical_violations(violations_by_resource) THEN 1 ELSE 0
    /\ pc' = "exited"
    /\ UNCHANGED <<script, source_parses, args_json, os_environ, re_rejects_inline_flag, plan_data,
                   index, plan_format_used, violations_by_resource,
                   analyzed_resources_count, excluded_resources_count, report,
                   console_report, warnings, call, ret>>

----------------------------------------------------------------------------
(* tf_static_analyze.py: the static scanner of .tf files.  A file is what  *)
(* hcl2.load returns for it: resources with their type, name and tags      *)
(* attribute, which is a literal map ("dict"), a reference string ("str"), *)
(* a list ("list"), another value ("other") or absent.                     *)

STATIC_ENV_ALLOWED ==
    IF DEPLOYMENT_ENV = "PROD" THEN <<"Production::PRD">>
    ELSE <<"Non-production::DEV", "Non-production::QAT">>

STATIC_MANDATORY_TAG_RULES ==
    "global" :>
        << Rule("Application", <<"MyApp", "AnotherApp", "TestApp">>, TRUE, "", "", "", ""),
           Rule("Environment", STATIC_ENV_ALLOWED, FALSE, "", "", "", ""),
           Rule("Owner", <<"devops">>, TRUE, "", "", "", "") >> @@
    "aws_s3_bucket" :>
        << Rule("DataRetention", <<"30d", "1y", "5y">>, FALSE, "", "", "", ""),
           Rule("Breadth", <<"global", "regional", "local">>, TRUE, "", "", "", ""),
           Rule("Sensitivity", <<"public", "confidential", "restricted">>, TRUE, "", "", "", ""),
           Rule("Danger", <<"low", "medium", "high">>, TRUE, "", "", "", "") >>

EXCLUDED_RESOURCE_TYPES ==
    {"aws_iam_role", "aws_iam_policy", "aws_iam_role_policy_attachment",
     "aws_iam_instance_profile", "terraform_remote_state", "aws_route53_zone"}

ISSUE_MISSING == "Missing mandatory tag."
ISSUE_NOT_STRING == "Tag value is not a simple string"
ISSUE_INVALID == "Invalid value"
ISSUE_NON_LITERAL == "Tags defined using non-literal map"
ISSUE_PARSE == "Failed to parse file"
BLOCK_KEY == "N/A (Block)"

StaticViolation(address, tag_key, issue) ==
    [resource |-> address, tag_key |-> tag_key, issue |-> issue]

\* validate_tags: the loop over the mandatory rules
RECURSIVE StaticRuleViolations(_, _, _)
StaticRuleViolations(resource_tags, rules, address) ==
    IF rules = << >> THEN << >>
    ELSE LET rule == Head(rules)
             value == resource_tags[rule.key]
             value_to_check == IF rule.case_insensitive THEN Lower(value.v) ELSE value.v
             valid_values == IF rule.case_insensitive
                             THEN {Lower(v) : v \in SeqToSet(rule.allowed_values)}
                             ELSE SeqToSet(rule.allowed_values)
         IN  (IF rule.key \notin DOMAIN resource_tags
              THEN << StaticViolation(address, rule.key, ISSUE_MISSING) >>
              ELSE IF value.t # "str"
                   THEN << StaticViolation(address, rule.key, ISSUE_NOT_STRING) >>
              ELSE IF rule.allowed_values # << >> /\ value_to_check \notin valid_values
                   THEN << StaticViolation(address, rule.key, ISSUE_INVALID) >>
              ELSE << >>) \o StaticRuleViolations(resource_tags, Tail(rules), address)

validate_tags(resource_tags, resource_type, address) ==
    StaticRuleViolations(resource_tags,
                         DictGet(STATIC_MANDATORY_TAG_RULES, "global")
                         \o DictGet(STATIC_MANDATORY_TAG_RULES, resource_type),
                         address)

\* analyze_terraform_file, for one resource
StaticResourceViolations(resource) ==
    IF resource.type \in EXCLUDED_RESOURCE_TYPES THEN << >>
    ELSE IF resource.tags.kind = "absent"
         THEN validate_tags(EmptyMap, resource.type, resource.address)
    ELSE IF resource.tags.kind = "dict"
         THEN validate_tags(resource.tags.m, resource.type, resource.address)
    ELSE IF resource.tags.kind \in {"str", "list"}
         THEN << StaticViolation(resource.address, BLOCK_KEY, ISSUE_NON_LITERAL) >>
    ELSE << >>

RECURSIVE StaticResourcesViolations(_)
StaticResourcesViolations(resources) ==
    IF resources = << >> THEN << >>
    ELSE StaticResourceViolations(Head(resources))
         \o StaticResourcesViolations(Tail(resources))

\* analyze_terraform_file: a file that hcl2 cannot parse gives one violation
analyze_terraform_file(file) ==
    IF file.parses THEN StaticResourcesViolations(file.resources)
    ELSE << StaticViolation(<<"N/A", "N/A">>, "N/A", ISSUE_PARSE) >>

RECURSIVE StaticTotalViolations(_)
StaticTotalViolations(tf_files) ==
    IF tf_files = << >> THEN << >>
    ELSE analyze_terraform_file(Head(tf_files)) \o StaticTotalViolations(Tail(tf_files))

\* main of tf_static_analyze.py: exit 1 for a missing directory, 0 when there is no .tf
\* file or no violation, 1 otherwise
static_main(scan) ==
    IF ~scan.is_dir THEN [total_violations |-> << >>, exit_code |-> 1]
    ELSE IF scan.tf_files = << >> THEN [total_violations |-> << >>, exit_code |-> 0]
    ELSE LET total_violations == StaticTotalViolations(scan.tf_files)
         IN  [total_violations |-> total_violations,
              exit_code |-> IF total_violations = << >> THEN 0 ELSE 1]

----------------------------------------------------------------------------
(* Inputs of the run *)

Scripts == {"tag_not_worked", "Tagging_POLICY_Check", "tagging_solution_debug"}
EnvValues == {"<unset>", "PROD", "prod"}

TagsBase ==
    StrMap("Application" :> "MyApp" @@ "Environment" :> "Non-production::DEV" @@
           "Owner" :> "a@b.com")

TagsS3 ==
    DictUpdate(TagsBase,
        StrMap("DataRetention" :> "30d" @@ "Classification" :> "Internal" @@
               "breadth" :> "single-region" @@ "sensitivity" :> "low" @@ "danger" :> "none"))

TagsOptional ==
    StrMap("CostCenter" :> "cc-1" @@ "Project" :> "proj" @@ "Terraform" :> "true")

TagsS3Full == DictUpdate(TagsS3, TagsOptional)
TagsS3Critical == DictUpdate(TagsS3, StrMap("sensitivity" :> "critical"))
TagsS3Prod == DictUpdate(TagsS3Full, StrMap("Environment" :> "Production::PRD"))
TagsBaseFull == DictUpdate(TagsBase, TagsOptional)

TagsOnly(m) == Config(DictAttr(m), << >>, AbsentAttr)
NoConfig == Config(AbsentAttr, << >>, AbsentAttr)

Create == ListAttr(<<"create">>)

\* a record whose 'type' is a JSON list
ListTyped(resource) ==
    [resource EXCEPT !.type = "['" \o resource.type \o "']", !.type_hashable = FALSE]

\* records of the resource_changes shape on which the loop body raises
RaisingChangeRecords ==
    { Resource("aws_s3_bucket", "data", NullList, <<"create">>, TagsOnly(TagsS3), TRUE, FALSE),
      ListTyped(Resource("aws_vpc", "main", Create, <<"create">>,
                         Config(DictAttr(TagsBase), << >>, DictAttr(TagsBaseFull)),
                         TRUE, FALSE)) }

\* records of the resource_changes shape
ChangeRecords ==
    \* the record carries its own 'actions' key
    { Resource("aws_s3_bucket", "logs", Create, <<"create">>, TagsOnly(m), TRUE, FALSE) :
        m \in {EmptyMap, TagsBase, TagsS3, TagsS3Full, TagsS3Critical, TagsS3Prod} }
    \cup
    { Resource("aws_s3_bucket", "data", ListAttr(<<"update">>), <<"update">>,
               Config(DictAttr(TagsBase), << >>, DictAttr(TagsS3Full)), TRUE, FALSE),
      Resource("aws_s3_bucket", "data", Create, <<"create">>, NoConfig, TRUE, TRUE),
      Resource("aws_s3_bucket", "data", ListAttr(<<"delete">>), <<"delete">>,
               NoConfig, FALSE, FALSE),
      Resource("aws_vpc", "main", Create, <<"create">>, TagsOnly(TagsBase), TRUE, FALSE),
      Resource("aws_vpc", "main", Create, <<"create">>, TagsOnly(TagsBaseFull), TRUE, FALSE),
      Resource("aws_iam_role", "admin", Create, <<"create">>, TagsOnly(EmptyMap), TRUE, FALSE),
      Resource("aws_iam_role", "admin", Create, <<"create">>, NoConfig, TRUE, TRUE),
      Resource("aws_instance", "dev-web", Create, <<"create">>, TagsOnly(TagsBase), TRUE, FALSE),
      Resource("aws_instance", "web", Create, <<"create">>,
               TagsOnly(DictUpdate(TagsBaseFull, StrMap("AssetID" :> "asset-1"))), TRUE, FALSE) }
    \cup
    \* the record carries its actions at change.actions only, as terraform show -json writes it
    { Resource("aws_s3_bucket", "logs", AbsentList, <<"create">>, TagsOnly(TagsBase), TRUE, FALSE),
      Resource("aws_s3_bucket", "logs", AbsentList, <<"create">>, NoConfig, TRUE, TRUE),
      Resource("aws_iam_role", "admin", AbsentList, <<"create">>, TagsOnly(EmptyMap), TRUE, FALSE) }
    \cup
    \* a 'tag' list with a malformed item, and an optional tag with a value off its list
    { Resource("aws_vpc", "main", Create, <<"create">>,
               Config(AbsentAttr, << [key |-> JNum("1"), value |-> JStr("MyApp")] >>,
                      AbsentAttr), FALSE, FALSE),
      Resource("aws_s3_bucket", "data", Create, <<"create">>,
               TagsOnly(DictUpdate(TagsS3Full, StrMap("Terraform" :> "Internal"))),
               TRUE, FALSE) }
    \cup
    \* after_unknown.tags_all is true
    { [Resource("aws_vpc", "main", Create, <<"create">>, NoConfig, TRUE, FALSE)
         EXCEPT !.tags_all_unknown = TRUE] }
    \cup RaisingChangeRecords

\* records of the planned_values shape
ValueRecords ==
    { Resource("aws_s3_bucket", "logs", AbsentList, << >>, TagsOnly(m), TRUE, FALSE) :
        m \in {TagsBase, TagsS3, TagsS3Full} }
    \cup
    { Resource("aws_vpc", "main", AbsentList, << >>, NoConfig, FALSE, FALSE),
      Resource("aws_iam_role", "admin", AbsentList, << >>, TagsOnly(EmptyMap), TRUE, FALSE),
      ListTyped(Resource("aws_vpc", "main", AbsentList, << >>, TagsOnly(TagsBase), TRUE, FALSE)) }

\* sequences of at most n records with pairwise distinct addresses
DistinctAddresses(l) ==
    \A i, j \in 1..Len(l) : i # j => l[i].address # l[j].address

RecordLists(pool, n) ==
    { l \in UNION { [1..k -> pool] : k \in 0..n } : DistinctAddresses(l) }

\* two records that carry the same address, the second one raising
RepeatedAddressLists ==
    { <<a, b>> : a \in { r \in ChangeRecords : r.address = <<"aws_vpc", "main">> },
                 b \in { r \in RaisingChangeRecords : r.address = <<"aws_vpc", "main">> } }

\* plans that carry both top-level keys: resource_changes is an empty list, null or a
\* list of one record, next to one record under planned_values.root_module.resources
BothShapesDocs ==
    { PlanDoc("ok", rc, ListAttr(<<v>>)) :
        rc \in { ListAttr(<< >>), NullList }
                \cup { ListAttr(<<r>>) :
                         r \in { Resource("aws_iam_role", "admin", Create, <<"create">>,
                                          TagsOnly(EmptyMap), TRUE, FALSE),
                                 Resource("aws_instance", "web", Create, <<"create">>,
                                          TagsOnly(DictUpdate(TagsBaseFull,
                                                   StrMap("AssetID" :> "asset-1"))),
                                          TRUE, FALSE) } },
        v \in ValueRecords }

\* the plan file: "ok" holds a JSON object, "not_object" another JSON value,
\* "invalid_json" no JSON at all, "missing" does not exist
PlanDocs ==
    { PlanDoc("ok", ListAttr(l), AbsentList) : l \in RecordLists(ChangeRecords, MaxPlanLen) }
    \cup { PlanDoc("ok", ListAttr(l), AbsentList) : l \in RepeatedAddressLists }
    \cup { PlanDoc("ok", AbsentList, ListAttr(l)) : l \in RecordLists(ValueRecords, MaxPlanLen) }
    \cup BothShapesDocs
    \cup { PlanDoc("ok", NullList, AbsentList),
           PlanDoc("ok", AbsentList, NullList),
           PlanDoc("ok", AbsentList, AbsentList),
           PlanDoc("missing", AbsentList, AbsentList),
           PlanDoc("invalid_json", AbsentList, AbsentList),
           PlanDoc("not_object", AbsentList, AbsentList) }

NoCall == [op |-> "none"]

Init ==
    /\ script \in Scripts
    /\ source_parses \in (IF script = "Tagging_POLICY_Check" THEN BOOLEAN ELSE {TRUE})
    /\ args_json \in BOOLEAN
    /\ os_environ \in EnvValues
    /\ re_rejects_inline_flag \in BOOLEAN
    /\ plan_data \in PlanDocs
    /\ pc = "start"
    /\ index = 0
    /\ plan_format_used = "none"
    /\ violations_by_resource = << >>
    /\ analyzed_resources_count = 0
    /\ excluded_resources_count = 0
    /\ report = NoReport
    /\ console_report = NoConsoleReport
    /\ warnings = << >>
    /\ exit_code = -1
    /\ call = NoCall
    /\ ret = NoCall

Next ==
    \/ SyntaxErrorExit
    \/ LoadPlan
    \/ SelectResources
    \/ ProcessResource
    \/ EndLoop
    \/ GenerateReport
    \/ Exit

Spec == Init /\ [][Next]_vars

----------------------------------------------------------------------------
(* The helper functions called on their own *)

\* inputs of extract_tags
SmallValues == {JStr("1"), JStr("2"), JStr("3"), JNum("7"), JNull}
SmallMaps == UNION { [ks -> SmallValues] : ks \in SUBSET {"A", "B"} }
SmallAttrs == {AbsentAttr, OtherAttr} \cup { DictAttr(m) : m \in SmallMaps }
TagItems ==
    { [key |-> k, value |-> v] :
        k \in {JStr("A"), JNum("1")}, v \in {JStr("2"), JBool(TRUE), JNull, JAbsent} }
TagListAttrs == { TagListAttr(l) : l \in {<< >>} \cup { << x >> : x \in TagItems } }
TagLists == UNION { [1..k -> TagItems] : k \in 0..MaxTagList }
ExtractCalls ==
    { [op |-> "extract_tags", config |-> Config(t, l, a)] :
        t \in SmallAttrs, l \in TagLists, a \in SmallAttrs }

\* inputs of get_relevant_tag_rules: the catalog of the configuration, and catalogs
\* whose global and type-specific lists share keys
SmallRules ==
    { Rule(k, << v >>, FALSE, "", "", v, "") :
        k \in {"Application", "Owner"}, v \in {"global-value", "type-value"} }
SmallRuleLists == UNION { [1..k -> SmallRules] : k \in 0..MaxRuleList }
RulesCalls ==
    { [op |-> "get_relevant_tag_rules", catalog |-> MANDATORY_TAG_RULES, resource_type |-> t] :
        t \in {"aws_s3_bucket", "aws_instance", "aws_rds_cluster", "aws_vpc"} }
    \cup
    { [op |-> "get_relevant_tag_rules",
       catalog |-> ("global" :> g @@ "aws_s3_bucket" :> s), resource_type |-> t] :
        g \in SmallRuleLists, s \in SmallRuleLists, t \in {"aws_s3_bucket", "aws_vpc"} }

\* inputs of check_cross_tag_rules
OptionalKey(key, values) == {EmptyMap} \cup { key :> v : v \in values }
CrossTagMaps ==
    { a @@ b @@ c @@ d :
        a \in OptionalKey("sensitivity", {JStr("critical"), JStr("low"), JStr("high")}),
        b \in OptionalKey("Classification",
                          {JStr("Strictly Confidential"), JStr("Internal"), JStr("Public")}),
        c \in OptionalKey("Environment", {JStr("Production::PRD"), JStr("Non-production::DEV")}),
        d \in OptionalKey("BackupEnabled", {JStr("true"), JStr("false")}) }
CrossCalls ==
    { [op |-> "check_cross_tag_rules", resource_tags |-> m, resource_type |-> t] :
        m \in CrossTagMaps, t \in {"aws_s3_bucket", "aws_instance", "aws_vpc"} }

\* inputs of validate_tag_value: the rules of the configuration, the rule of the
\* case-insensitive example, and rules whose allowed list and regex disagree
ValidateValues ==
    { JStr(v) : v \in {"MyApp", "myapp", "OtherApp", "30d", "90d", "Indefinite", "indefinite",
                       "a@b.com", "true", "TRUE", "Internal", "Non-production::DEV",
                       "Production::PRD", "asset-1"} }
    \cup {JNum("1"), JBool(TRUE)}
ValidateRules ==
    SeqToSet(GlobalRules) \cup SeqToSet(S3BucketRules) \cup SeqToSet(InstanceRules)
    \cup SeqToSet(RdsClusterRules) \cup SeqToSet(OPTIONAL_TAGS)
    \cup { Rule("Application", <<"MyApp">>, ci, "", "", "MyApp", "") : ci \in BOOLEAN }
    \cup { Rule("DataRetention", <<"30d", "MyApp", "True">>, ci, "", rx, "30d", "") :
             ci \in BOOLEAN, rx \in {RX_RETENTION_VALUE, RX_APP_VALUE, RX_ASSET_VALUE} }
ValidateCalls ==
    { [op |-> "validate_tag_value", tag_value |-> v, rule |-> r] :
        v \in ValidateValues, r \in ValidateRules }

\* inputs of check_tag_compliance: rule lists with pairwise distinct keys, as
\* get_relevant_tag_rules builds them, with key and value regexes that match, do not
\* match or do not compile
ComplianceRules ==
    { Rule(k, a, FALSE, kr, vr, "use-" \o k, "") :
        k \in {"Application", "Owner"}, a \in {<< >>, <<"MyApp">>},
        kr \in {"", RX_ENV_KEY, RX_APP_VALUE}, vr \in {"", RX_APP_VALUE} }
ComplianceRuleLists ==
    { l \in UNION { [1..k -> ComplianceRules] : k \in 0..MaxRuleList } :
        \A i, j \in 1..Len(l) : i # j => l[i].key # l[j].key }
ComplianceTags ==
    UNION { [ks -> {JStr("MyApp"), JStr("a@b.com"), JNum("1")}] :
              ks \in SUBSET {"Application", "Owner"} }
ComplianceCalls ==
    { [op |-> "check_tag_compliance", resource_tags |-> t, mandatory_rules |-> l,
       optional_rules |-> OPTIONAL_TAGS] :
        t \in ComplianceTags, l \in ComplianceRuleLists }

CallExtractTags ==
    /\ call.op = "extract_tags"
    /\ ret = NoCall
    /\ ret' = [op |-> "extract_tags", value |-> extract_tags(call.config),
               config_after |-> ConfigAfterExtract(call.config),
               warnings |-> ExtractTagsWarnings(call.config)]
    /\ UNCHANGED <<script, source_parses, args_json, os_environ, re_rejects_inline_flag,
                   plan_data, pc,
                   index, plan_format_used, violations_by_resource,
                   analyzed_resources_count, excluded_resources_count, report,
                   console_report, warnings, exit_code, call>>

\* a second extract_tags call on the same configuration object
CallExtractTagsAgain ==
    /\ call.op = "extract_tags"
    /\ ret.op = "extract_tags"
    /\ ret' = [op |-> "extract_tags_again", first |-> ret.value,
               value |-> extract_tags(ret.config_after),
               config_after |-> ConfigAfterExtract(ret.config_after),
               warnings |-> ExtractTagsWarnings(ret.config_after)]
    /\ UNCHANGED <<script, source_parses, args_json, os_environ, re_rejects_inline_flag,
                   plan_data, pc,
                   index, plan_format_used, violations_by_resource,
                   analyzed_resources_count, excluded_resources_count, report,
                   console_report, warnings, exit_code, call>>

CallGetRelevantTagRules ==
    /\ call.op = "get_relevant_tag_rules"
    /\ ret = NoCall
    /\ ret' = [op |-> "get_relevant_tag_rules",
               value |-> get_relevant_tag_rules_from(call.catalog, call.resource_type)]
    /\ UNCHANGED <<script, source_parses, args_json, os_environ, re_rejects_inline_flag,
                   plan_data, pc,
                   index, plan_format_used, violations_by_resource,
                   analyzed_resources_count, excluded_resources_count, report,
                   console_report, warnings, exit_code, call>>

CallValidateTagValue ==
    /\ call.op = "validate_tag_value"
    /\ ret = NoCall
    /\ ret' = [op |-> "validate_tag_value",
               value |-> validate_tag_value(call.tag_value, call.rule),
               warnings |-> IF ValueRegexWarns(call.tag_value, call.rule)
                            THEN << WarnInvalidValueRegex(call.rule.key) >> ELSE << >>]
    /\ UNCHANGED <<script, source_parses, args_json, os_environ, re_rejects_inline_flag,
                   plan_data, pc,
                   index, plan_format_used, violations_by_resource,
                   analyzed_resources_count, excluded_resources_count, report,
                   console_report, warnings, exit_code, call>>

\* inputs of extract_tags of tagging_deep_scan.py
DeepScanCalls ==
    { [op |-> "deep_scan_extract_tags", config |-> Config(t, l, a)] :
        t \in SmallAttrs \cup TagListAttrs,
        l \in {<< >>} \cup { << x >> : x \in TagItems },
        a \in SmallAttrs \cup TagListAttrs }

CallDeepScanExtractTags ==
    /\ call.op = "deep_scan_extract_tags"
    /\ ret = NoCall
    /\ ret' = [op |-> "deep_scan_extract_tags", value |-> deep_scan_extract_tags(call.config)]
    /\ UNCHANGED <<script, source_parses, args_json, os_environ, re_rejects_inline_flag,
                   plan_data, pc,
                   index, plan_format_used, violations_by_resource,
                   analyzed_resources_count, excluded_resources_count, report,
                   console_report, warnings, exit_code, call>>

\* inputs of tf_static_analyze.py: a directory with at most one .tf file of resources
\* with pairwise distinct addresses, a directory with a second file that does not parse,
\* and a path that is not a directory
StaticResource(type, name, tags) ==
    [type |-> type, address |-> <<type, name>>, tags |-> tags]

StaticTagsVpc ==
    StrMap("Application" :> "MyApp" @@ "Environment" :> "Non-production::DEV" @@
           "Owner" :> "DevOps")

StaticResources ==
    { StaticResource("aws_vpc", "main", t) :
        t \in {AbsentAttr, OtherAttr, [kind |-> "str", m |-> EmptyMap],
               [kind |-> "list", m |-> EmptyMap], DictAttr(StaticTagsVpc),
               DictAttr(DictUpdate(StaticTagsVpc, "Owner" :> JNum("7"))),
               DictAttr(DictUpdate(StaticTagsVpc, StrMap("Application" :> "OtherApp")))} }
    \cup
    { StaticResource("aws_s3_bucket", "logs", t) :
        t \in {[kind |-> "str", m |-> EmptyMap], DictAttr(StaticTagsVpc)} }
    \cup
    { StaticResource("aws_iam_role", "admin", t) :
        t \in {AbsentAttr, [kind |-> "str", m |-> EmptyMap]} }

StaticFiles ==
    { [parses |-> TRUE, resources |-> l] : l \in RecordLists(StaticResources, MaxScanLen) }

StaticScans ==
    { [is_dir |-> TRUE, tf_files |-> << >>], [is_dir |-> FALSE, tf_files |-> << >>] }
    \cup { [is_dir |-> TRUE, tf_files |-> << f >>] : f \in StaticFiles }
    \cup { [is_dir |-> TRUE, tf_files |-> << f, [parses |-> FALSE, resources |-> << >>] >>] :
             f \in { g \in StaticFiles : Len(g.resources) <= 1 } }

StaticCalls == { [op |-> "tf_static_analyze", scan |-> x] : x \in StaticScans }

CallStaticMain ==
    /\ call.op = "tf_static_analyze"
    /\ ret = NoCall
    /\ ret' = [op |-> "tf_static_analyze", value |-> static_main(call.scan)]
    /\ UNCHANGED <<script, source_parses, args_json, os_environ, re_rejects_inline_flag,
                   plan_data, pc,
                   index, plan_format_used, violations_by_resource,
                   analyzed_resources_count, excluded_resources_count, report,
                   console_report, warnings, exit_code, call>>

CallCheckTagCompliance ==
    /\ call.op = "check_tag_compliance"
    /\ ret = NoCall
    /\ ret' = [op |-> "check_tag_compliance",
               value |-> check_tag_compliance(call.resource_tags, call.mandatory_rules,
                                              call.optional_rules),
               warnings |-> ComplianceWarnings(call.resource_tags, call.mandatory_rules,
                                               call.optional_rules)]
    /\ UNCHANGED <<script, source_parses, args_json, os_environ, re_rejects_inline_flag,
                   plan_data, pc,
                   index, plan_format_used, violations_by_resource,
                   analyzed_resources_count, excluded_resources_count, report,
                   console_report, warnings, exit_code, call>>

CallCheckCrossTagRules ==
    /\ call.op = "check_cross_tag_rules"
    /\ ret = NoCall
    /\ ret' = [op |-> "check_cross_tag_rules",
               value |-> check_cross_tag_rules(call.resource_tags, call.resource_type)]
    /\ UNCHANGED <<script, source_parses, args_json, os_environ, re_rejects_inline_flag,
                   plan_data, pc,
                   index, plan_format_used, violations_by_resource,
                   analyzed_resources_count, excluded_resources_count, report,
                   console_report, warnings, exit_code, call>>

InitCalls ==
    /\ script = "tag_not_worked"
    /\ source_parses = TRUE
    /\ args_json = FALSE
    /\ os_environ \in {"<unset>", "PROD"}
    /\ re_rejects_inline_flag \in BOOLEAN
    /\ plan_data = PlanDoc("ok", AbsentList, AbsentList)
    /\ pc = "call"
    /\ index = 0
    /\ plan_format_used = "none"
    /\ violations_by_resource = << >>
    /\ analyzed_resources_count = 0
    /\ excluded_resources_count = 0
    /\ report = NoReport
    /\ console_report = NoConsoleReport
    /\ warnings = << >>
    /\ exit_code = -1
    /\ call \in ExtractCalls \cup RulesCalls \cup CrossCalls \cup ValidateCalls
                \cup ComplianceCalls \cup DeepScanCalls \cup StaticCalls
    /\ ret = NoCall

NextCalls ==
    \/ CallExtractTags
    \/ CallExtractTagsAgain
    \/ CallGetRelevantTagRules
    \/ CallCheckCrossTagRules
    \/ CallValidateTagValue
    \/ CallCheckTagCompliance
    \/ CallDeepScanExtractTags
    \/ CallStaticMain

SpecCalls == InitCalls /\ [][NextCalls]_vars

----------------------------------------------------------------------------
(* Properties *)

Finished == pc = "exited" /\ plan_data.file = "ok"

\* a real finding, spelled out on the fields of an issues record
RealFinding(issues) ==
    \/ Len(issues.missing) > 0
    \/ Len(issues.invalid) > 0
    \/ Len(issues.cross_tag) > 0
    \/ issues.analysis_error # ""

OptionalOnly(issues) == Len(issues.optional) > 0 /\ ~RealFinding(issues)

RealFindingCount == Cardinality({ i \in 1..Len(violations_by_resource) :
                                    RealFinding(violations_by_resource[i].issues) })

KeysOf(entries) == [i \in 1..Len(entries) |-> entries[i].key]

\* the record the loop is about to process
AtRecord == pc = "loop" /\ index <= Len(ResourcesToCheck(plan_data))
CurrentRecord == ResourcesToCheck(plan_data)[index]

\* C1: once the plan has loaded, the exit code is 0 exactly when no entry of the
\* violation map has a missing-mandatory, invalid, cross-tag or analysis-error finding,
\* and 1 otherwise; optional-only entries never give exit code 1.
C1_ExitCode ==
    Finished =>
        /\ exit_code \in {0, 1}
        /\ exit_code = 0 <=>
             \A i \in 1..Len(violations_by_resource) :
                ~RealFinding(violations_by_resource[i].issues)

\* the plan of the end-to-end scenario: one aws_s3_bucket.logs record, action create,
\* tags Application=MyApp, Environment=Non-production::DEV, Owner=a@b.com
C2_ScenarioPlan ==
    /\ plan_data.file = "ok"
    /\ plan_data.resource_changes.kind = "list"
    /\ Len(plan_data.resource_changes.l) = 1
    /\ LET r == plan_data.resource_changes.l[1]
       IN  /\ r.address = <<"aws_s3_bucket", "logs">>
           /\ r.change_actions = <<"create">>
           /\ ~r.tags_unknown
           /\ r.config = TagsOnly(TagsBase)

\* C2: with DEPLOYMENT_ENV unset, the scenario plan ends with exactly the two
\* missing_mandatory entries DataRetention and Classification for aws_s3_bucket.logs
\* and with exit code 1.
C2_EndToEnd ==
    (pc = "exited" /\ os_environ = "<unset>" /\ C2_ScenarioPlan) =>
        /\ KeysOf(EntryOf(violations_by_resource, <<"aws_s3_bucket", "logs">>).missing)
             = <<"DataRetention", "Classification">>
        /\ exit_code = 1

NonNull(m) == \A k \in DOMAIN m : m[k].t # "null"

\* the items of a 'tag' list that extract_tags applies: both keys present, a string key
\* and a str, int, float or bool value
AppliedItems(tag_list) ==
    { i \in 1..Len(tag_list) :
        /\ tag_list[i].key.t = "str"
        /\ tag_list[i].value.t \in {"str", "num", "bool"} }

RuleKeys(rules) == { rules[i].key : i \in 1..Len(rules) }

\* C4: the mandatory list of get_relevant_tag_rules has exactly one rule per distinct
\* key of the global and the type's rules, and for a key that the type defines the
\* returned rule is the type's rule.
C4_MergedRules ==
    ret.op = "get_relevant_tag_rules" =>
        LET g == DictGet(call.catalog, "global")
            t == DictGet(call.catalog, call.resource_type)
            m == ret.value.mandatory
        IN  /\ RuleKeys(m) = RuleKeys(g) \cup RuleKeys(t)
            /\ \A i, j \in 1..Len(m) : i # j => m[i].key # m[j].key
            /\ \A i \in 1..Len(m) :
                  IF m[i].key \in RuleKeys(t)
                  THEN m[i] \in SeqToSet(t)
                  ELSE m[i] \in SeqToSet(g)

C4_Witness ==
    /\ ret.op = "get_relevant_tag_rules"
    /\ LET g == DictGet(call.catalog, "global")
           t == DictGet(call.catalog, call.resource_type)
           m == ret.value.mandatory
       IN  \E i \in 1..Len(m) :
              /\ m[i].key \in RuleKeys(g) \cap RuleKeys(t)
              /\ m[i] \in SeqToSet(t)
              /\ m[i] \notin SeqToSet(g)

\* resource types excluded by an exclusion rule without name_regex
TypeOnlyExcluded ==
    { EXCLUDED_RESOURCES[i].type : i \in { j \in 1..Len(EXCLUDED_RESOURCES) :
                                            EXCLUDED_RESOURCES[j].name_regex = "" } }

\* C5: processing a record whose type is excluded by a type-only rule counts it in
\* excluded_resources, not in analyzed_resources, and gives it no entry in the
\* violation map, whatever its tags and after_unknown flags.
C5_ExcludedByType ==
    [][ (/\ script = "tag_not_worked"
         /\ AtRecord
         /\ CurrentRecord.type \in TypeOnlyExcluded) =>
            /\ excluded_resources_count' = excluded_resources_count + 1
            /\ analyzed_resources_count' = analyzed_resources_count
            /\ violations_by_resource' = violations_by_resource ]_vars

\* C6: in tag_not_worked.py, resources_with_violations of the JSON report counts the
\* resources with a real finding only, never a resource whose only finding is missing
\* optional tags, and a run whose only findings are of that kind exits with 0.
C6_OptionalOnlyNotCounted ==
    (/\ script = "tag_not_worked" /\ args_json
     /\ plan_data.file = "ok" /\ pc \in {"exit", "exited"}) =>
        /\ report.summary.resources_with_violations = RealFindingCount
        /\ (pc = "exited" /\ RealFindingCount = 0) => exit_code = 0

C6_Witness ==
    /\ script = "tag_not_worked"
    /\ args_json
    /\ Finished
    /\ \E i \in 1..Len(violations_by_resource) :
          OptionalOnly(violations_by_resource[i].issues)
    /\ report.summary.resources_with_violations = 0
    /\ report.summary.analyzed_resources > 0
    /\ exit_code = 0

\* C7: in the reports of Tagging_POLICY_Check.py, compliant_resources is
\* analyzed_resources - resources_with_violations, and resources_with_violations
\* counts only the resources with a real finding.
C7_CompliantCount ==
    (/\ script = "Tagging_POLICY_Check" /\ args_json
     /\ plan_data.file = "ok" /\ pc \in {"exit", "exited"}) =>
        /\ report.summary.compliant_resources =
              report.summary.analyzed_resources - report.summary.resources_with_violations
        /\ report.summary.resources_with_violations = RealFindingCount

\* C8: a create/update record whose after_unknown marks tags as unknown is counted in
\* analyzed_resources and gets no missing_mandatory and no invalid entry.
C8_UnknownTags ==
    [][ (/\ AtRecord
         /\ plan_format_used = "resource_changes"
         /\ SeqToSet(CurrentRecord.change_actions) \cap {"create", "update"} # {}
         /\ CurrentRecord.tags_unknown) =>
            /\ analyzed_resources_count' = analyzed_resources_count + 1
            /\ LET e == EntryOf(violations_by_resource', CurrentRecord.address)
               IN  e.missing = << >> /\ e.invalid = << >> ]_vars

\* C9: for aws_s3_bucket, check_cross_tag_rules gives exactly one error when
\* sensitivity=critical and Classification is absent or not 'Strictly Confidential',
\* and none when sensitivity is absent or has another value.
C9_CrossTagS3 ==
    (ret.op = "check_cross_tag_rules" /\ call.resource_type = "aws_s3_bucket") =>
        LET tags == call.resource_tags
            critical == /\ "sensitivity" \in DOMAIN tags
                        /\ tags["sensitivity"] = JStr("critical")
            strictly == /\ "Classification" \in DOMAIN tags
                        /\ tags["Classification"] = JStr("Strictly Confidential")
        IN  /\ (critical /\ ~strictly) => Len(ret.value) = 1
            /\ ~critical => Len(ret.value) = 0

C9_Witness ==
    /\ ret.op = "check_cross_tag_rules"
    /\ call.resource_type = "aws_s3_bucket"
    /\ "sensitivity" \in DOMAIN call.resource_tags
    /\ call.resource_tags["sensitivity"] = JStr("critical")
    /\ "Classification" \in DOMAIN call.resource_tags
    /\ call.resource_tags["Classification"] = JStr("Internal")
    /\ Len(ret.value) = 1

\* the allowed Environment values of the run, from the environment variable
C10_Allowed ==
    IF os_environ \in {"PROD", "prod"} THEN {"Production::PRD"}
    ELSE {"Non-production::DEV", "Non-production::QAT"}

\* C10: every validated resource of a run has Environment in its invalid list exactly
\* when its value is outside the one allowed set fixed by DEPLOYMENT_ENV at start-up;
\* with PROD that set is {Production::PRD}, so Non-production::DEV is invalid.
C10_EnvironmentRule ==
    pc \in {"loop", "report", "exit", "exited"} =>
        \A i \in 1..Len(ResourcesToCheck(plan_data)) :
            LET r == ResourcesToCheck(plan_data)[i]
                tags == extract_tags(r.config)
            IN  (/\ i < index
                 /\ Outcome(plan_format_used, r) = "analyze"
                 /\ "Environment" \in DOMAIN tags) =>
                    (("Environment" \in
                        RuleKeys(EntryOf(violations_by_resource, r.address).invalid))
                     <=> Str(tags["Environment"]) \notin C10_Allowed)

C10_Witness ==
    /\ Finished
    /\ os_environ = "PROD"
    /\ \E i \in 1..Len(violations_by_resource) :
          \E j \in 1..Len(violations_by_resource[i].issues.invalid) :
             /\ violations_by_resource[i].issues.invalid[j].key = "Environment"
             /\ violations_by_resource[i].issues.invalid[j].value = JStr("Non-production::DEV")

\* the value, lower-cased when the rule is case-insensitive
C11_Norm(rule, s) == IF rule.case_insensitive THEN Lower(s) ELSE s

\* C11: validate_tag_value returns valid exactly when (a) allowed_values is unset or the
\* value, lower-cased under case_insensitive, equals a likewise lower-cased allowed
\* value, and (b) value_regex is unset or re.match finds the pattern at the start of the
\* value; with both set both must hold.  allowed_values=[MyApp], case_insensitive=true
\* accepts 'myapp' and rejects 'OtherApp'.
C11_ValueValid ==
    ret.op = "validate_tag_value" =>
        LET rule == call.rule
            s == Str(call.tag_value)
            a == \/ Len(rule.allowed_values) = 0
                 \/ \E i \in 1..Len(rule.allowed_values) :
                       C11_Norm(rule, rule.allowed_values[i]) = C11_Norm(rule, s)
            b == \/ rule.value_regex = ""
                 \/ (~ReError(rule.value_regex) /\ s \in ReMatchSet(rule.value_regex))
        IN  /\ ret.value = (a /\ b)
            /\ (rule = Rule("Application", <<"MyApp">>, TRUE, "", "", "MyApp", "")) =>
                  /\ call.tag_value = JStr("myapp") => ret.value = TRUE
                  /\ call.tag_value = JStr("OtherApp") => ret.value = FALSE

C11_Witness ==
    /\ ret.op = "validate_tag_value"
    /\ call.rule.allowed_values = <<"30d", "MyApp", "True">>
    /\ call.rule.case_insensitive
    /\ call.rule.value_regex = RX_RETENTION_VALUE
    /\ call.tag_value = JStr("myapp")
    /\ ret.value = FALSE

\* C12: a second extract_tags call on the same configuration object returns the mapping
\* the first call returned, for every combination of tags, tag and tags_all.
C12_ExtractIdempotent ==
    ret.op = "extract_tags_again" => ret.value = ret.first

\* both calls ran on a configuration whose tags_all dict the first call rewrote
C12_Witness ==
    /\ ret.op = "extract_tags_again"
    /\ call.config.tags.kind = "dict"
    /\ call.config.tags_all.kind = "dict"
    /\ call.config.tag # << >>
    /\ ret.config_after # call.config
    /\ ret.first # EmptyMap
    /\ ret.value = ret.first

\* the loop body raises on the record
Raises(resource) == Outcome(plan_format_used, resource) \in {"error", "analyze_error"}

\* some record of the plan makes the loop body raise
SomeRecordRaises ==
    \E i \in 1..Len(ResourcesToCheck(plan_data)) : Raises(ResourcesToCheck(plan_data)[i])

\* C13: when processing a record raises, the exception is recorded as analysis_error
\* under the record's address and the loop goes on to the next record; the run then
\* reports at least one resource with violations and exits with code 1.
C13_ExceptionIsolated ==
    [][ /\ (AtRecord /\ Raises(CurrentRecord)) =>
            /\ EntryOf(violations_by_resource', CurrentRecord.address).analysis_error # ""
            /\ pc' = "loop"
            /\ index' = index + 1
        /\ (pc = "report" /\ args_json /\ SomeRecordRaises) =>
            report'.summary.resources_with_violations >= 1
        /\ (pc = "exit" /\ SomeRecordRaises) => exit_code' = 1 ]_vars

\* C14: when the plan file does not exist or does not hold valid JSON, the process ends
\* with a non-zero exit status straight from loading: no resource is analyzed, and neither
\* the JSON report nor the console report is produced.
C14_LoadFailure ==
    plan_data.file \in {"missing", "invalid_json"} =>
        /\ pc \in {"start", "syntax_error", "exited"}
        /\ pc \in {"syntax_error", "exited"} => exit_code # 0 /\ exit_code # -1
        /\ index = 0
        /\ analyzed_resources_count = 0
        /\ excluded_resources_count = 0
        /\ violations_by_resource = << >>
        /\ report = NoReport
        /\ console_report = NoConsoleReport

C14_Witness ==
    /\ plan_data.file = "invalid_json"
    /\ script = "Tagging_POLICY_Check"
    /\ pc = "exited"
    /\ exit_code = 1
    /\ report = NoReport
    /\ console_report = NoConsoleReport

\* C15: a plan that is a JSON object with neither resource_changes nor planned_values
\* only causes warnings: the run goes on to its end, nothing is analyzed, and the report
\* of the run (JSON or console) shows analyzed_resources = 0 and no violations.
UnknownShape ==
    /\ plan_data.file = "ok"
    /\ plan_data.resource_changes.kind = "absent"
    /\ plan_data.planned_values.kind = "absent"

C15_UnknownShapeWarns ==
    UnknownShape =>
        /\ pc \notin {"start", "syntax_error"} =>
              Len(warnings) >= 1 /\ warnings[1] = WARN_PLAN_KEYS
        /\ pc # "loop"
        /\ analyzed_resources_count = 0
        /\ violations_by_resource = << >>
        /\ pc = "exited" =>
              /\ exit_code = 0
              /\ LET shown == IF args_json THEN report ELSE console_report
                 IN  /\ shown.summary.deployment_environment_mode = DEPLOYMENT_ENV
                     /\ shown.summary.analyzed_resources = 0
                     /\ shown.summary.resources_with_violations = 0
              /\ args_json => report.violations = << >>
              /\ ~args_json => /\ console_report.details = << >>
                               /\ console_report.heading # "violation_details"

C15_Witness ==
    /\ UnknownShape
    /\ pc = "exited"
    /\ exit_code = 0
    /\ warnings = <<WARN_PLAN_KEYS, WARN_NO_RESOURCE_LIST>>
    /\ ~args_json
    /\ console_report # NoConsoleReport
    /\ console_report.summary.analyzed_resources = 0

\* C16: in the JSON report of tag_not_worked.py and tagging_solution_debug.py, a resource
\* has an entry in the violations list exactly when it has a missing mandatory tag, an
\* invalid tag, a cross-tag error or an analysis error; the entry carries that resource's
\* findings and its missing optional suggestions.
ListedInViolations(address) ==
    \E j \in 1..Len(report.violations) : report.violations[j].resource = address

C16_ViolationsList ==
    (/\ script \in {"tag_not_worked", "tagging_solution_debug"} /\ args_json
     /\ plan_data.file = "ok" /\ pc \in {"exit", "exited"}) =>
        /\ \A i \in 1..Len(violations_by_resource) :
              RealFinding(violations_by_resource[i].issues)
                  <=> ListedInViolations(violations_by_resource[i].resource)
        /\ \A j \in 1..Len(report.violations) :
              \E i \in 1..Len(violations_by_resource) :
                  LET item == violations_by_resource[i]
                      entry == report.violations[j]
                  IN  /\ entry.resource = item.resource
                      /\ entry.missing_mandatory = item.issues.missing
                      /\ entry.invalid_tags = item.issues.invalid
                      /\ entry.cross_tag_errors = item.issues.cross_tag
                      /\ entry.analysis_error = item.issues.analysis_error
                      /\ entry.missing_optional_suggestions = item.issues.optional
        /\ Len(report.violations) = RealFindingCount

C16_Witness ==
    /\ script = "tagging_solution_debug"
    /\ args_json
    /\ Finished
    /\ \E j \in 1..Len(report.violations) :
          /\ report.violations[j].missing_mandatory # << >>
          /\ report.violations[j].missing_optional_suggestions # << >>
    /\ \E i \in 1..Len(violations_by_resource) :
          /\ OptionalOnly(violations_by_resource[i].issues)
          /\ ~ListedInViolations(violations_by_resource[i].resource)

\* C17: for a plan whose records carry pairwise distinct addresses, the console report of
\* tag_not_worked.py and tagging_solution_debug.py lists the resources of each section in
\* lexicographic order of address, whatever the order of the records in the plan.
SortedByAddress(blocks) ==
    \A i, j \in 1..Len(blocks) :
        i < j => AddressLess(blocks[i].resource, blocks[j].resource)

C17_ConsoleOrder ==
    (/\ script \in {"tag_not_worked", "tagging_solution_debug"} /\ ~args_json
     /\ plan_data.file = "ok" /\ pc \in {"exit", "exited"}
     /\ DistinctAddresses(ResourcesToCheck(plan_data))) =>
        /\ SortedByAddress(console_report.details)
        /\ SortedByAddress(console_report.optional_suggestions)

\* C18: in the console report of tag_not_worked.py and Tagging_POLICY_Check.py, a resource
\* whose only issue is missing optional tags is listed in the 'Optional Tag Suggestions'
\* section and not in the violation details; a resource with a real finding or an analysis
\* error is listed in the violation details and not in 'Optional Tag Suggestions'.
InDetails(address) ==
    \E j \in 1..Len(console_report.details) : console_report.details[j].resource = address

InOptionalSuggestions(address) ==
    /\ console_report.optional_heading
    /\ \E j \in 1..Len(console_report.optional_suggestions) :
          console_report.optional_suggestions[j].resource = address

C18_ConsoleSections ==
    (/\ script \in {"tag_not_worked", "Tagging_POLICY_Check"} /\ ~args_json
     /\ plan_data.file = "ok" /\ pc \in {"exit", "exited"}) =>
        \A i \in 1..Len(violations_by_resource) :
            LET item == violations_by_resource[i]
            IN  /\ OptionalOnly(item.issues) =>
                      InOptionalSuggestions(item.resource) /\ ~InDetails(item.resource)
                /\ RealFinding(item.issues) =>
                      InDetails(item.resource) /\ ~InOptionalSuggestions(item.resource)

\* C19: in a plan of the resource_changes shape, a record whose change.actions contains
\* create or update and whose type is not excluded is counted in analyzed_resources, and
\* when its tags are known it is evaluated against the rules.
C19_ChangeActionsAnalyzed ==
    [][ (/\ AtRecord
         /\ plan_format_used = "resource_changes"
         /\ SeqToSet(CurrentRecord.change_actions) \cap {"create", "update"} # {}
         /\ CurrentRecord.actions.kind # "null"
         /\ CurrentRecord.type_hashable
         /\ ~is_resource_excluded(CurrentRecord.type, CurrentRecord.address)) =>
            /\ analyzed_resources_count' = analyzed_resources_count + 1
            /\ ~(CurrentRecord.tags_unknown \/ CurrentRecord.tags_all_unknown) =>
                  violations_by_resource' =
                      Store(violations_by_resource, CurrentRecord.address,
                            Findings(CurrentRecord)) ]_vars

\* C20: in a plan of the planned_values shape, every entry of
\* planned_values.root_module.resources is either counted in excluded_resources or counted
\* in analyzed_resources, an entry whose values map is empty included.
C20_ValuesNeverSkipped ==
    [][ (AtRecord /\ plan_format_used = "planned_values" /\ CurrentRecord.type_hashable) =>
            IF is_resource_excluded(CurrentRecord.type, CurrentRecord.address)
            THEN /\ excluded_resources_count' = excluded_resources_count + 1
                 /\ analyzed_resources_count' = analyzed_resources_count
            ELSE /\ analyzed_resources_count' = analyzed_resources_count + 1
                 /\ excluded_resources_count' = excluded_resources_count ]_vars

\* C21: when the regex of a rule does not compile, the tag is reported as invalid and
\* nothing is raised: the resource gets an 'Invalid value' entry for the tag and no
\* analysis_error, the rules after the offending one are still evaluated, and the loop
\* goes on to the next record.
C21_RegexErrorFailsClosed ==
    [][ (/\ AtRecord
         /\ re_rejects_inline_flag
         /\ CurrentRecord.type_hashable
         /\ ~(CurrentRecord.tags_unknown \/ CurrentRecord.tags_all_unknown)
         /\ "Application" \in DOMAIN extract_tags(CurrentRecord.config)
         /\ analyzed_resources_count' = analyzed_resources_count + 1) =>
            LET tags == extract_tags(CurrentRecord.config)
                rules == get_relevant_tag_rules(CurrentRecord.type).mandatory
                e == EntryOf(violations_by_resource', CurrentRecord.address)
            IN  /\ e.analysis_error = ""
                /\ \E k \in 1..Len(e.invalid) :
                      /\ e.invalid[k].key = "Application"
                      /\ e.invalid[k].reason = "Invalid value"
                /\ \A i \in 1..Len(rules) :
                      rules[i].key \notin DOMAIN tags =>
                          \E k \in 1..Len(e.missing) : e.missing[k].key = rules[i].key
                /\ \A i \in 1..Len(rules) :
                      (/\ rules[i].key \in DOMAIN tags
                       /\ rules[i].key # "Application"
                       /\ ~validate_tag_value(tags[rules[i].key], rules[i])) =>
                          \E k \in 1..Len(e.invalid) : e.invalid[k].key = rules[i].key
                /\ pc' = "loop"
                /\ index' = index + 1 ]_vars

C21_Witness ==
    /\ re_rejects_inline_flag
    /\ pc = "exited"
    /\ plan_data.file = "ok"
    /\ analyzed_resources_count = 2
    /\ Len(violations_by_resource) = 2
    /\ \A i \in 1..2 :
          /\ violations_by_resource[i].issues.analysis_error = ""
          /\ \E k \in 1..Len(violations_by_resource[i].issues.invalid) :
                /\ violations_by_resource[i].issues.invalid[k].key = "Application"
                /\ violations_by_resource[i].issues.invalid[k].value = JStr("MyApp")
    /\ \E k \in 1..Len(violations_by_resource[1].issues.missing) :
          violations_by_resource[1].issues.missing[k].key = "DataRetention"

\* C22: over a whole run of tag_not_worked.py the invalid-regex warning of a rule is
\* printed at most once, however many resources the rule is evaluated against.
C22_WarnOncePerRule ==
    script = "tag_not_worked" =>
        \A i, j \in 1..Len(warnings) :
            (i # j /\ warnings[i] \notin {WARN_PLAN_KEYS, WARN_NO_RESOURCE_LIST,
                                           WarnMalformedTagItem}) =>
                warnings[i] # warnings[j]

\* C23: check_tag_compliance handles each mandatory rule in one of four ways. A rule whose
\* key is absent gives exactly one missing_mandatory entry with the rule's suggestion and
\* nothing else; a rule whose present key fails key_regex gives exactly one invalid entry
\* 'Invalid key format' and its value is not validated; otherwise a value that fails
\* validation gives exactly one invalid entry 'Invalid value'; otherwise the rule gives no
\* entry. So no rule key is both in missing_mandatory and in invalid, or twice in either.
EntriesOf(entries, key) == { k \in 1..Len(entries) : entries[k].key = key }

KeyFailsRegex(rule) ==
    rule.key_regex # "" /\ ReMatch(rule.key_regex, rule.key) # "match"

C23_PerRuleVerdict ==
    ret.op = "check_tag_compliance" =>
        \A i \in 1..Len(call.mandatory_rules) :
            LET rule == call.mandatory_rules[i]
                tags == call.resource_tags
                missing == EntriesOf(ret.value.missing, rule.key)
                invalid == EntriesOf(ret.value.invalid, rule.key)
            IN  IF rule.key \notin DOMAIN tags
                THEN /\ Cardinality(missing) = 1
                     /\ \A k \in missing : ret.value.missing[k].suggestion = rule.suggestion
                     /\ invalid = {}
                ELSE IF KeyFailsRegex(rule)
                THEN /\ missing = {}
                     /\ Cardinality(invalid) = 1
                     /\ \A k \in invalid :
                           /\ ret.value.invalid[k].reason = "Invalid key format"
                           /\ ret.value.invalid[k].value = tags[rule.key]
                     /\ WarnInvalidValueRegex(rule.key) \notin SeqToSet(ret.warnings)
                ELSE IF ~validate_tag_value(tags[rule.key], rule)
                THEN /\ missing = {}
                     /\ Cardinality(invalid) = 1
                     /\ \A k \in invalid :
                           /\ ret.value.invalid[k].reason = "Invalid value"
                           /\ ret.value.invalid[k].value = tags[rule.key]
                ELSE missing = {} /\ invalid = {}

C23_Witness ==
    /\ ret.op = "check_tag_compliance"
    /\ Len(call.mandatory_rules) = 2
    /\ DOMAIN call.resource_tags = {"Application"}
    /\ KeyFailsRegex(call.mandatory_rules[1])
    /\ ReError(call.mandatory_rules[1].key_regex)
    /\ ReError(call.mandatory_rules[1].value_regex)
    /\ Len(ret.value.invalid) = 1
    /\ ret.value.invalid[1].reason = "Invalid key format"
    /\ Len(ret.value.missing) = 1
    /\ ret.value.missing[1] = [key |-> "Owner", suggestion |-> "use-Owner"]
    /\ ret.warnings = << WarnInvalidKeyRegex("Application") >>

\* C24: every value of the mapping returned by extract_tags is a string: non-null numbers
\* and booleans found in tags, tag or tags_all come out in their string form, and keys
\* whose value is null are dropped.
C24_ValuesAreStrings ==
    ret.op = "extract_tags" =>
        \A k \in DOMAIN ret.value : ret.value[k].t = "str"

\* C25: in extract_tags of tagging_deep_scan.py the explicit tags are not overridden by
\* tags_all: a key that is present and non-null in both the tags map and the tags_all map
\* comes out with the value it has in tags.
C25_ExplicitTagsWin ==
    ret.op = "deep_scan_extract_tags" =>
        LET config == call.config
        IN  (config.tags.kind = "dict" /\ config.tags_all.kind = "dict") =>
                \A k \in DOMAIN config.tags.m \cap DOMAIN config.tags_all.m :
                    (/\ config.tags.m[k].t # "null"
                     /\ config.tags_all.m[k].t # "null"
                     /\ \A i \in 1..Len(config.tag) : Str(config.tag[i].key) # k) =>
                        /\ k \in DOMAIN ret.value
                        /\ ret.value[k] = JStr(Str(config.tags.m[k]))

\* C26: in tf_static_analyze.py a resource whose tags attribute is not a literal map (a
\* reference string or a list) is flagged as not statically validatable and no mandatory
\* rule is evaluated for it; a scan whose only findings are such flags does not end with
\* the violation exit code 1.
NonLiteralTags(resource) ==
    resource.tags.kind \in {"str", "list"} /\ resource.type \notin EXCLUDED_RESOURCE_TYPES

C26_NonLiteralFlagged ==
    (ret.op = "tf_static_analyze" /\ call.scan.is_dir) =>
        LET found == ret.value.total_violations
        IN  /\ \A f \in 1..Len(call.scan.tf_files) :
                  \A i \in 1..Len(call.scan.tf_files[f].resources) :
                      LET resource == call.scan.tf_files[f].resources[i]
                          own == { k \in 1..Len(found) : found[k].resource = resource.address }
                      IN  (call.scan.tf_files[f].parses /\ NonLiteralTags(resource)) =>
                              /\ Cardinality(own) = 1
                              /\ \A k \in own : /\ found[k].tag_key = BLOCK_KEY
                                                 /\ found[k].issue = ISSUE_NON_LITERAL
            /\ (/\ found # << >>
                /\ \A k \in 1..Len(found) : found[k].issue = ISSUE_NON_LITERAL) =>
                    ret.value.exit_code # 1

\* C27: total_resources_in_plan of the JSON report equals the number of records of the
\* selected resource list, also for plans that hold delete, no-op or read records.
C27_TotalCountsRecords ==
    (/\ script \in {"tag_not_worked", "Tagging_POLICY_Check"} /\ args_json
     /\ plan_data.file = "ok" /\ pc \in {"exit", "exited"}) =>
        report.summary.total_resources_in_plan = Len(ResourcesToCheck(plan_data))

\* C28: extract_tags leaves its input unchanged: after the call the resource's attribute
\* map and its tags, tag and tags_all values hold what they held before the call.
C28_InputUnchanged ==
    ret.op = "extract_tags" => ret.config_after = call.config

\* C29: in every report of tag_not_worked.py, 0 <= resources_with_violations <=
\* analyzed_resources, so compliant_resources is never negative, also when the processing
\* of a record raises before or after the record is counted as analyzed.
C29_ViolationsWithinAnalyzed ==
    (/\ script = "tag_not_worked"
     /\ plan_data.file = "ok" /\ pc \in {"exit", "exited"}) =>
        LET summary == IF args_json THEN report.summary ELSE console_report.summary
        IN  /\ 0 <= summary.resources_with_violations
            /\ summary.resources_with_violations <= summary.analyzed_resources
            /\ summary.compliant_resources >= 0

\* the document carries a resource_changes key
HasResourceChanges == plan_data.file = "ok" /\ plan_data.resource_changes.kind # "absent"

\* C30: the plan shape is resolved by key presence, resource_changes first: when the
\* document has a resource_changes key only that list is iterated and planned_values is
\* never consulted, also when resource_changes is empty or not a list, in which case the
\* analysis finds zero resources and the run ends without a finding; the planned_values
\* resources are used only when resource_changes is absent.
C30_ResourceChangesFirst ==
    /\ (HasResourceChanges /\ pc \notin {"start", "syntax_error", "select"}) =>
          /\ plan_format_used = "resource_changes"
          /\ \A i \in 1..Len(violations_by_resource) :
                \E j \in 1..Len(plan_data.resource_changes.l) :
                    violations_by_resource[i].resource =
                        plan_data.resource_changes.l[j].address
          /\ analyzed_resources_count + excluded_resources_count
                 <= Len(plan_data.resource_changes.l)
          /\ (plan_data.resource_changes.l = << >> /\ pc = "exited") => exit_code = 0
    /\ (plan_data.file = "ok" /\ plan_format_used = "planned_values") =>
          plan_data.resource_changes.kind = "absent"


====
